---------------------------- MODULE Spec2Model ----------------------------
(***************************************************************************)
(* The query-result cache of portal-finder (CacheService, its SQLite       *)
(* schema and the routes that call it), as a state machine.                *)
(*                                                                         *)
(* Text is a sequence of one-character strings, so that normalizeQuery,    *)
(* generateCacheKey and the date-time comparisons of SQLite are computed   *)
(* character by character, as the code computes them.                     *)
(***************************************************************************)
EXTENDS Integers, Sequences, FiniteSets, Bags, TLC

(***************************************************************************)
(* Characters and strings                                                  *)
(***************************************************************************)
UpperChars == <<"A","B","C","D","E","F","G","H","I","J","K","L","M",
                "N","O","P","Q","R","S","T","U","V","W","X","Y","Z">>

LowerChars == <<"a","b","c","d","e","f","g","h","i","j","k","l","m",
                "n","o","p","q","r","s","t","u","v","w","x","y","z">>

DigitChars == {"0","1","2","3","4","5","6","7","8","9"}

Range(s) == {s[i] : i \in DOMAIN s}

\* String.prototype.toLowerCase, one character
lowerChar(c) ==
    IF \E i \in DOMAIN UpperChars : UpperChars[i] = c
    THEN LowerChars[CHOOSE i \in DOMAIN UpperChars : UpperChars[i] = c]
    ELSE c

toLowerCase(s) == [i \in DOMAIN s |-> lowerChar(s[i])]

\* the regular expression classes \s and \w
isSpace(c) == c \in {" ", "\t", "\n"}

isWord(c) == c \in Range(UpperChars) \cup Range(LowerChars) \cup DigitChars \cup {"_"}

RECURSIVE dropSpaces(_)
dropSpaces(s) ==
    IF s # <<>> /\ isSpace(Head(s)) THEN dropSpaces(Tail(s)) ELSE s

RECURSIVE dropSpacesRight(_)
dropSpacesRight(s) ==
    IF s # <<>> /\ isSpace(s[Len(s)])
    THEN dropSpacesRight(SubSeq(s, 1, Len(s) - 1))
    ELSE s

\* String.prototype.trim
trim(s) == dropSpacesRight(dropSpaces(s))

\* .replace(/\s+/g, ' ')
RECURSIVE collapseSpaces(_)
collapseSpaces(s) ==
    IF s = <<>> THEN <<>>
    ELSE IF isSpace(Head(s))
         THEN <<" ">> \o collapseSpaces(dropSpaces(Tail(s)))
         ELSE <<Head(s)>> \o collapseSpaces(Tail(s))

\* the alternatives of /\b(the|a|an|and|or|of|for|in|on|at|to|by|with)\b/g
StopWords ==
    { <<"t","h","e">>, <<"a">>, <<"a","n">>, <<"a","n","d">>, <<"o","r">>,
      <<"o","f">>, <<"f","o","r">>, <<"i","n">>, <<"o","n">>, <<"a","t">>,
      <<"t","o">>, <<"b","y">>, <<"w","i","t","h">> }

\* the longest prefix of s made of \w characters
RECURSIVE wordPrefix(_)
wordPrefix(s) ==
    IF s # <<>> /\ isWord(Head(s))
    THEN <<Head(s)>> \o wordPrefix(Tail(s))
    ELSE <<>>

\* .replace(/\b(the|a|...)\b/g, ''): both \b make a match a whole run of \w
\* characters, so every maximal run that is a stop word is deleted
RECURSIVE removeStopWords(_)
removeStopWords(s) ==
    IF s = <<>> THEN <<>>
    ELSE IF isWord(Head(s))
         THEN LET run  == wordPrefix(s)
                  rest == SubSeq(s, Len(run) + 1, Len(s))
              IN  (IF run \in StopWords THEN <<>> ELSE run) \o removeStopWords(rest)
         ELSE <<Head(s)>> \o removeStopWords(Tail(s))

\* .replace(/[^\w\s]/g, '')
removePunctuation(s) == SelectSeq(s, LAMBDA c : isWord(c) \/ isSpace(c))

normalizeQuery(query) ==
    trim(collapseSpaces(removePunctuation(removeStopWords(
        collapseSpaces(trim(toLowerCase(query)))))))

\* crypto.createHash('md5')...digest('hex'): the digest is kept symbolic, as
\* the text it was computed from; two keys are equal iff their texts are
md5(text) == <<"md5">> \o text

\* a key built from the state and city as they were typed
generateCacheKeyCased(query, state, city) ==
    LET normalizedQuery == normalizeQuery(query)
        cacheString == normalizedQuery \o <<"|">> \o state \o <<"|">> \o city
    IN  md5(cacheString)

generateCacheKey(query, state, city) ==
    LET normalizedQuery == normalizeQuery(query)
        cacheString == normalizedQuery \o <<"|">> \o toLowerCase(state)
                                       \o <<"|">> \o toLowerCase(city)
    IN  md5(cacheString)

(***************************************************************************)
(* Time.  The clock counts ticks; TicksPerDay of them make one UTC day.    *)
(* A date-time text is kept as its three fixed-width parts: the date, the  *)
(* character that follows it, and the time of day.                         *)
(***************************************************************************)
TicksPerDay == 2

MaxTime == 4

\* this.defaultCacheExpiration = 24 * 60 * 60 * 1000: one day
defaultCacheExpiration == TicksPerDay

dayOf(t) == t \div TicksPerDay

\* Date.prototype.toISOString: "YYYY-MM-DDTHH:MM:SS.sssZ"
toISOString(t) == [date |-> dayOf(t), sep |-> "T", time |-> t % TicksPerDay]

\* SQLite's datetime('now'): "YYYY-MM-DD HH:MM:SS"
sqlDatetime(t) == [date |-> dayOf(t), sep |-> " ", time |-> t % TicksPerDay]

\* new Date(text).getTime()
dateGetTime(text) == text.date * TicksPerDay + text.time

\* new Date().toISOString().split('T')[0]
isoDate(t) == dayOf(t)

charCode(c) == IF c = " " THEN 32 ELSE 84

\* SQLite compares two TEXT values byte by byte (the columns hold text, and
\* neither side is a number): a < b
textLess(a, b) ==
    \/ a.date < b.date
    \/ a.date = b.date /\ charCode(a.sep) < charCode(b.sep)
    \/ a.date = b.date /\ a.sep = b.sep /\ a.time < b.time

(***************************************************************************)
(* Payloads: JSON.stringify and JSON.parse                                 *)
(***************************************************************************)
Null == [null |-> TRUE]

\* the result objects handed to storeResult: each has a services array
R1 == [title |-> "R1", services |-> 1]

R2 == [title |-> "R2", services |-> 2]

Payloads == { R1, R2 }

JSONstringify(value) == <<"json", value>>

\* JSON.parse(text) returns a value; else it throws a SyntaxError
isJSON(text) == Len(text) = 2 /\ text[1] = "json"

JSONparse(text) == text[2]

(***************************************************************************)
(* Inputs                                                                  *)
(***************************************************************************)
QDlRenewal == <<"d","l"," ","r","e","n","e","w","a","l">>

QDrivingLicenseRenewal ==
    <<"d","r","i","v","i","n","g"," ","l","i","c","e","n","s","e"," ",
      "r","e","n","e","w","a","l">>

QDl == <<"d","l">>

QDrivingLicense ==
    <<"d","r","i","v","i","n","g"," ","l","i","c","e","n","s","e">>

Queries == { QDlRenewal, QDrivingLicenseRenewal }

GoaState == <<"G","o","a">>

DelhiState == <<"D","e","l","h","i">>

States == { GoaState, DelhiState }

CapitalCity == <<"C","a","p","i","t","a","l">>

Cities == { CapitalCity }

\* generateCacheKey and normalizeQuery on the inputs, computed once
\* other spellings of the same request: "DL  Renewal?", "GOA", "capital"
QDlRenewalSpelled == <<"D","L"," "," ","R","e","n","e","w","a","l","?">>

GoaUpper == <<"G","O","A">>

CapitalLower == <<"c","a","p","i","t","a","l">>

SpelledQueries == { QDlRenewal, QDlRenewalSpelled }

SpelledStates == { GoaState, GoaUpper }

SpelledCities == { CapitalCity, CapitalLower }

\* the queries whose popularity is compared
PopularInputs == Queries \cup { QDl }

cacheKeyOf ==
    [q \in Queries \cup SpelledQueries \cup PopularInputs, s \in States \cup SpelledStates,
     c \in Cities \cup SpelledCities |-> generateCacheKey(q, s, c)]

normalizedOf ==
    [q \in Queries \cup SpelledQueries \cup PopularInputs |-> normalizeQuery(q)]

\* the request slots: operations in flight at the same time
Procs == { "p1", "p2" }

\* how many cache operations a run starts
MaxOps == 3

(***************************************************************************)
(* State                                                                   *)
(***************************************************************************)
VARIABLES
    now,              \* the clock: Date.now() and datetime('now')
    process,          \* the hosting process: "constructed", "running", "crashed"
    db,               \* this.db: "null", or the Database handle: "open", "closed"
    isInitialized,    \* this.isInitialized
    timers,           \* the two setInterval tasks of startCleanupProcess run
    tables,           \* schema.sql has been executed on the database file
    io,               \* the persistent tier: "ok", "failing", "recovered"
    memoryCache,      \* this.memoryCache: a Map, kept in insertion order
    search_cache,     \* table search_cache: a set of rows
    sqlite_sequence,  \* AUTOINCREMENT: the largest id search_cache has used
    cache_stats,      \* table cache_stats
    popular_queries,  \* table popular_queries
    query_synonyms,   \* table query_synonyms
    procs,            \* each request slot's operation and position in it
    statsTasks,       \* the updateCacheStats calls nobody awaits, in flight
    opsStarted,       \* operations started so far
    ret,              \* what the operation that returned last gave its caller
    hist,             \* history, kept for stating the properties
    requests          \* each slot's POST /search request and its position

vars == << now, process, db, isInitialized, timers, tables, io, memoryCache,
           search_cache, sqlite_sequence, cache_stats, popular_queries,
           query_synonyms, procs, statsTasks, opsStarted, ret, hist,
           requests >>

(***************************************************************************)
(* MemoryTier: this.memoryCache, a Map                                     *)
(***************************************************************************)
\* this.memoryCacheSize (100 in the source, scaled down with the inputs)
memoryCacheSize == 2

memKeys(m) == { m[i].key : i \in DOMAIN m }

\* Map.prototype.has
memHas(m, key) == key \in memKeys(m)

\* Map.prototype.get
memGet(m, key) == m[CHOOSE i \in DOMAIN m : m[i].key = key].data

\* Map.prototype.delete
memDelete(m, key) == SelectSeq(m, LAMBDA e : e.key # key)

\* Map.prototype.set: a present key keeps its place, a new key goes last
memSet(m, key, data) ==
    IF memHas(m, key)
    THEN [i \in DOMAIN m |-> IF m[i].key = key THEN [key |-> key, data |-> data] ELSE m[i]]
    ELSE Append(m, [key |-> key, data |-> data])

\* an eviction that removes the newest key instead of the first
addToMemoryCacheNewest(m, key, data) ==
    LET m1 == IF Len(m) >= memoryCacheSize /\ m # <<>>
              THEN memDelete(m, m[Len(m)].key)
              ELSE m
    IN  memSet(m1, key, data)

\* an addToMemoryCache that leaves a full Map as it is
addToMemoryCacheIfRoom(m, key, data) ==
    IF Len(m) >= memoryCacheSize THEN m ELSE memSet(m, key, data)

\* an addToMemoryCache that never deletes
addToMemoryCacheNoEvict(m, key, data) == memSet(m, key, data)

\* lines 282-290
addToMemoryCache(m, key, data) ==
    LET m1 == IF Len(m) >= memoryCacheSize /\ m # <<>>
              THEN memDelete(m, m[1].key)
              ELSE m
    IN  memSet(m1, key, data)

\* a sweep that keeps the entries expiring at this very instant
sweepMemoryStrict(m, t) == SelectSeq(m, LAMBDA e : ~(e.data.expires_at < t))

\* the 10-minute interval of startCleanupProcess
sweepMemory(m, t) == SelectSeq(m, LAMBDA e : ~(e.data.expires_at <= t))

(***************************************************************************)
(* PersistentTier: the SQL statements                                      *)
(***************************************************************************)
\* a statement's callback gets err: the tier is failing, or the table is missing
stmtFails == io = "failing" \/ ~tables \/ db # "open"

\* SELECT * FROM search_cache WHERE query_hash = ? AND expires_at > datetime('now')
selectLive(rows, cacheKey, t) ==
    { r \in rows : r.query_hash = cacheKey /\ textLess(sqlDatetime(t), r.expires_at) }

\* an INSERT that finds no UNIQUE(query_hash) to conflict with
insertBeside(rows, id, cacheKey, resultsJson, expiresAt, t) ==
    rows \cup
    { [ id |-> id, query_hash |-> cacheKey, search_results |-> resultsJson,
        expires_at |-> toISOString(expiresAt), created_at |-> sqlDatetime(t),
        hit_count |-> 1, last_accessed |-> sqlDatetime(t) ] }

\* INSERT OR REPLACE INTO search_cache: the UNIQUE(query_hash) conflict deletes
\* the old row; the new row gets a fresh id and the column defaults
insertOrReplace(rows, id, cacheKey, resultsJson, expiresAt, t) ==
    { r \in rows : r.query_hash # cacheKey } \cup
    { [ id |-> id, query_hash |-> cacheKey, search_results |-> resultsJson,
        expires_at |-> toISOString(expiresAt), created_at |-> sqlDatetime(t),
        hit_count |-> 1, last_accessed |-> sqlDatetime(t) ] }

\* UPDATE search_cache SET hit_count = hit_count + 1, last_accessed = ... WHERE id = ?
touchRow(rows, id, t) ==
    { IF r.id = id
      THEN [r EXCEPT !.hit_count = @ + 1, !.last_accessed = sqlDatetime(t)]
      ELSE r : r \in rows }

\* a DELETE that also takes the rows expiring later today
deleteThroughToday(rows, t) == { r \in rows : r.expires_at.date > dayOf(t) }

\* DELETE FROM search_cache WHERE expires_at < datetime('now')
deleteExpired(rows, t) == { r \in rows : ~textLess(r.expires_at, sqlDatetime(t)) }

\* a resolver that does not look at is_active
selectSynonymAnyStatus(rows, normalizedQuery) ==
    LET match == { r \in rows : r.synonym_query = normalizedQuery }
    IN  { r \in match : \A o \in match : o.confidence_score <= r.confidence_score }

\* SELECT base_query FROM query_synonyms WHERE synonym_query = ? AND is_active = 1
\* ORDER BY confidence_score DESC LIMIT 1: the rows the statement may return
selectSynonym(rows, normalizedQuery) ==
    LET match == { r \in rows : r.synonym_query = normalizedQuery /\ r.is_active = 1 }
    IN  { r \in match : \A o \in match : o.confidence_score <= r.confidence_score }

\* the seed rows of schema.sql whose texts the inputs can meet
\* (confidence_score in hundredths)
SeedSynonyms ==
    << [id |-> 0, base_query |-> QDrivingLicense, synonym_query |-> QDl,
        confidence_score |-> 85, is_active |-> 1],
       [id |-> 0, base_query |-> QDlRenewal, synonym_query |-> QDrivingLicenseRenewal,
        confidence_score |-> 95, is_active |-> 1] >>

\* INSERT OR IGNORE INTO query_synonyms (...) VALUES ...: the table has no
\* UNIQUE constraint but its id, so no row is ever ignored
insertSeeds(rows) ==
    rows \cup { [SeedSynonyms[i] EXCEPT !.id = Cardinality(rows) + i] :
                 i \in DOMAIN SeedSynonyms }

(***************************************************************************)
(* History and return values                                               *)
(***************************************************************************)
NoExp == [bound |-> FALSE]

Days == 0 .. (MaxTime \div TicksPerDay)

Idle == [op |-> "idle"]

keyOf(r) == cacheKeyOf[r.query, r.state, r.city]

\* a store on cacheKey is in flight in a slot other than p
storeInFlight(cacheKey, p) ==
    \E o \in Procs \ {p} : procs[o].op = "store" /\ keyOf(procs[o]) = cacheKey

\* hist.fresh: what the last store completed on a fingerprint stored, while no
\* store or clear on that fingerprint has begun since
freshOf(cacheKey) == { f \in hist.fresh : f.key = cacheKey }

\* what a lookup that begins now is bound to return, by the store contract
\* (serial: no other store on the fingerprint overlapped that store; earlier:
\* a store on the fingerprint had completed before it did)
expectAt(cacheKey) ==
    IF \E f \in freshOf(cacheKey) : now < f.expires_at
    THEN LET f == CHOOSE f \in freshOf(cacheKey) : TRUE
         IN  [ bound |-> TRUE, results |-> f.results, serial |-> f.serial,
               earlier |-> f.earlier, expires_at |-> f.expires_at ]
    ELSE NoExp

\* hist.spelled: the request text of the last store that completed with no
\* other store in flight, while no store has begun since
NoSpelled == [done |-> FALSE]

\* a store or clear on cacheKey begins: lookups in flight on it are no longer
\* bound by what was stored before
disturb(ps, cacheKeys) ==
    [o \in Procs |->
        IF ps[o].op = "lookup" /\ keyOf(ps[o]) \in cacheKeys
        THEN [ps[o] EXCEPT !.expect = NoExp, !.cleared = FALSE, !.synCase = FALSE,
                           !.spelled = NoSpelled]
        ELSE IF ps[o].op = "lookup"
             THEN [ps[o] EXCEPT !.synCase = FALSE, !.spelled = NoSpelled]
             ELSE IF ps[o].op = "store" /\ keyOf(ps[o]) \in cacheKeys
                  THEN [ps[o] EXCEPT !.alone = FALSE]
                  ELSE ps[o]]

\* a clear runs: what the stores in flight have written may be gone
void(ps) ==
    [o \in Procs |-> IF ps[o].op = "store" THEN [ps[o] EXCEPT !.voided = TRUE]
                     ELSE ps[o]]

\* the value a lookup returns, with what was true when it was issued
lookupReturn(l, result, tier, servedExpires) ==
    [ op |-> "lookup", query |-> l.query, state |-> l.state, city |-> l.city,
      result |-> result, tier |-> tier, servedExpires |-> servedExpires,
      issuedAt |-> l.startTime, returnedAt |-> now, expect |-> l.expect, cleared |-> l.cleared,
      synCase |-> l.synCase, quiet |-> l.quiet, key |-> keyOf(l),
      spelled |-> l.spelled, sources |-> l.sources ]

\* updateCacheStats(wasHit, ...) is called and not awaited
statsTask(wasHit) == [wasHit |-> wasHit, today |-> isoDate(now), pc |-> "check"]

countLookup(h, wasHit) ==
    [h EXCEPT !.lookups[isoDate(now)] =
        [n |-> @.n + 1, h |-> @.h + (IF wasHit THEN 1 ELSE 0)]]

\* hist.lastPut: the last call of addToMemoryCache, with the Map before and
\* after it
NoPut == [put |-> FALSE]

putOf(h, before, key, after) ==
    [h EXCEPT !.lastPut = [put |-> TRUE, before |-> before, key |-> key,
                           after |-> after]]

\* hist.afterClose: what ran after close() had been called
used(h, who) == IF h.closed THEN [h EXCEPT !.afterClose = @ \cup {who}] ELSE h

observe(h) == IF io = "failing" THEN [h EXCEPT !.errorSeen = TRUE] ELSE h

(***************************************************************************)
(* router.post("/search"), search.js 9-170: the handler awaits              *)
(* getCachedResult and storeResult; when the call of slot p returns, the    *)
(* handler of slot p goes on                                                *)
(***************************************************************************)
NoRequest == [pc |-> "none"]

\* lines 24-34 and 113-123 (149-160): what follows the awaited call
resume(p) ==
    LET r == requests[p] IN
    IF procs'[p] # Idle THEN requests
    ELSE IF r.pc = "getCachedResult"
         THEN IF ret'.result # Null
              THEN [requests EXCEPT ![p] =
                      [r EXCEPT !.pc = "done", !.status = 200,
                                !.cache_source = "database"]]
              \* lines 36-71: getBestPortal, then fetch(...) is called
              ELSE [requests EXCEPT ![p] =
                      [r EXCEPT !.pc = "fetch", !.fetched = TRUE]]
         ELSE IF r.pc = "storeResult"
              THEN [requests EXCEPT ![p] = [r EXCEPT !.pc = "done", !.status = 200]]
              ELSE requests

(***************************************************************************)
(* getCachedResult(query, state, city)                                     *)
(***************************************************************************)
\* the case of the synonym scenario: the mapping "dl" -> "driving license" is
\* active, "driving license renewal" has a live entry for this state and city,
\* "dl renewal" has none, and nothing else is in flight
synonymScenario(query, state, city) ==
    /\ normalizedOf[query] = QDlRenewal
    /\ \E m \in query_synonyms :
          m.synonym_query = QDl /\ m.base_query = QDrivingLicense /\ m.is_active = 1
    /\ \E r \in search_cache :
          /\ r.query_hash = cacheKeyOf[QDrivingLicenseRenewal, state, city]
          /\ dateGetTime(r.expires_at) > now
    /\ ~memHas(memoryCache, cacheKeyOf[query, state, city])
    /\ \A r \in search_cache : r.query_hash # cacheKeyOf[query, state, city]
    /\ \A o \in Procs : procs[o].op = "idle"
    /\ io = "ok"

newLookup(query, state, city) ==
    [ op |-> "lookup", pc |-> "start", query |-> query, state |-> state,
      city |-> city, startTime |-> now,
      expect |-> expectAt(cacheKeyOf[query, state, city]),
      cleared |-> cacheKeyOf[query, state, city] \in hist.cleared,
      synCase |-> synonymScenario(query, state, city),
      quiet |-> \A o \in Procs : procs[o] = Idle,
      spelled |-> IF \A o \in Procs : procs[o] = Idle THEN hist.spelled
                  ELSE NoSpelled,
      sources |-> <<>> ]

\* l.sources: the sources the lookup has consulted, each with its answer
consulted(l, source, found) ==
    [l EXCEPT !.sources = Append(@, [source |-> source, found |-> found])]

\* lines 136-139: the cache is not initialized
LookupNotInitialized(p, query, state, city) ==
    /\ process = "running" /\ procs[p] = Idle /\ opsStarted < MaxOps
    /\ ~isInitialized
    /\ opsStarted' = opsStarted + 1
    /\ ret' = lookupReturn(newLookup(query, state, city), Null, "none", -1)
    /\ UNCHANGED << now, process, db, isInitialized, timers, tables, io,
                    memoryCache, search_cache, sqlite_sequence, cache_stats,
                    popular_queries, query_synonyms, procs, statsTasks, hist >>
    /\ requests' = resume(p)

\* lines 147-153: the memory tier holds the key and the entry has not expired
LookupMemoryHit(p, query, state, city) ==
    LET cacheKey == cacheKeyOf[query, state, city] IN
    /\ process = "running" /\ procs[p] = Idle /\ opsStarted < MaxOps
    /\ isInitialized
    /\ memHas(memoryCache, cacheKey)
    /\ memGet(memoryCache, cacheKey).expires_at > now
    /\ opsStarted' = opsStarted + 1
    /\ statsTasks' = statsTasks (+) SetToBag({statsTask(TRUE)})
    /\ hist' = countLookup(hist, TRUE)
    /\ ret' = lookupReturn(consulted(newLookup(query, state, city), "memory", TRUE),
                           memGet(memoryCache, cacheKey).results, "memory",
                           memGet(memoryCache, cacheKey).expires_at)
    /\ UNCHANGED << now, process, db, isInitialized, timers, tables, io,
                    memoryCache, search_cache, sqlite_sequence, cache_stats,
                    popular_queries, query_synonyms, procs >>
    /\ requests' = resume(p)

\* lines 148-161: no entry, or an expired one, which is deleted; then
\* queryDatabase(cacheKey) is awaited
LookupMemoryMiss(p, query, state, city) ==
    LET cacheKey == cacheKeyOf[query, state, city] IN
    /\ process = "running" /\ procs[p] = Idle /\ opsStarted < MaxOps
    /\ isInitialized
    /\ ~(memHas(memoryCache, cacheKey) /\ memGet(memoryCache, cacheKey).expires_at > now)
    /\ opsStarted' = opsStarted + 1
    /\ memoryCache' = memDelete(memoryCache, cacheKey)
    /\ procs' = [procs EXCEPT ![p] =
                    [consulted(newLookup(query, state, city), "memory", FALSE)
                        EXCEPT !.pc = "queryDatabase"]]
    /\ UNCHANGED << now, process, db, isInitialized, timers, tables, io,
                    search_cache, sqlite_sequence, cache_stats, popular_queries,
                    query_synonyms, statsTasks, ret, hist >>
    /\ requests' = resume(p)

\* a miss that returns null and records nothing
lookupMissUnrecorded(p, l) ==
    /\ statsTasks' = statsTasks
    /\ hist' = countLookup(observe(hist), FALSE)
    /\ ret' = lookupReturn(l, Null, "none", -1)
    /\ procs' = [procs EXCEPT ![p] = Idle]

\* lines 190-192: a miss is recorded and null returned
lookupMiss(p, l) ==
    /\ statsTasks' = statsTasks (+) SetToBag({statsTask(FALSE)})
    /\ hist' = countLookup(observe(hist), FALSE)
    /\ ret' = lookupReturn(l, Null, "none", -1)
    /\ procs' = [procs EXCEPT ![p] = Idle]

\* a lookup that asks the synonym resolver whatever the direct read found
LookupQueryDatabaseThenSynonym(p) ==
    LET l == procs[p]
        rows == IF stmtFails THEN {} ELSE selectLive(search_cache, keyOf(l), now)
    IN
    /\ process = "running" /\ l.op = "lookup" /\ l.pc = "queryDatabase"
    /\ procs' = [procs EXCEPT ![p] =
                   [consulted(l, "persistent", rows # {})
                       EXCEPT !.pc = "findSynonymQuery"]]
    /\ hist' = used(observe(hist), "lookup")
    /\ UNCHANGED << now, process, db, isInitialized, timers, tables, io,
                    memoryCache, search_cache, sqlite_sequence, cache_stats,
                    popular_queries, query_synonyms, statsTasks, opsStarted, ret >>
    /\ requests' = resume(p)

\* lines 161-165 (queryDatabase, 204-221): the SELECT runs and its callback
\* resolves the row, or null on err
LookupQueryDatabase(p) ==
    LET l == procs[p]
        rows == IF stmtFails THEN {} ELSE selectLive(search_cache, keyOf(l), now)
    IN
    /\ process = "running" /\ l.op = "lookup" /\ l.pc = "queryDatabase"
    /\ \/ \E r \in rows :
            procs' = [procs EXCEPT ![p] =
                        [query |-> l.query, state |-> l.state, city |-> l.city,
                         op |-> "lookup", pc |-> "updateHitCount",
                         startTime |-> l.startTime, expect |-> l.expect,
                         cleared |-> l.cleared, synCase |-> l.synCase, quiet |-> l.quiet,
                         spelled |-> l.spelled,
                         sources |-> consulted(l, "persistent", TRUE).sources,
                         dbResult |-> r, tier |-> "database"]]
       \/ /\ rows = {}
          /\ procs' = [procs EXCEPT ![p] =
                         [consulted(l, "persistent", FALSE)
                             EXCEPT !.pc = "findSynonymQuery"]]
    /\ hist' = used(observe(hist), "lookup")
    /\ UNCHANGED << now, process, db, isInitialized, timers, tables, io,
                    memoryCache, search_cache, sqlite_sequence, cache_stats,
                    popular_queries, query_synonyms, statsTasks, opsStarted, ret >>
    /\ requests' = resume(p)

\* a findSynonymQuery whose callback resolves nothing when it gets err
LookupFindSynonymUnlessErr(p) ==
    LET l == procs[p]
        rows == selectSynonym(query_synonyms, normalizedOf[l.query])
    IN
    /\ process = "running" /\ l.op = "lookup" /\ l.pc = "findSynonymQuery"
    /\ ~stmtFails
    /\ \/ /\ \E r \in rows :
               procs' = [procs EXCEPT ![p] =
                           [query |-> l.query, state |-> l.state, city |-> l.city,
                            op |-> "lookup", pc |-> "querySynonym",
                            startTime |-> l.startTime, expect |-> l.expect,
                            cleared |-> l.cleared, synCase |-> l.synCase,
                            quiet |-> l.quiet, spelled |-> l.spelled,
                            sources |-> consulted(l, "synonym", TRUE).sources,
                            synonymQuery |-> r.base_query]]
          /\ hist' = observe(hist)
          /\ UNCHANGED << statsTasks, ret >>
       \/ /\ rows = {}
          /\ lookupMiss(p, consulted(l, "synonym", FALSE))
    /\ UNCHANGED << now, process, db, isInitialized, timers, tables, io,
                    memoryCache, search_cache, sqlite_sequence, cache_stats,
                    popular_queries, query_synonyms, opsStarted >>
    /\ requests' = resume(p)

\* lines 165-168 (findSynonymQuery, 111-130): the best active mapping of the
\* normalized query, or null; then queryDatabase(synonymKey) is awaited
LookupFindSynonym(p) ==
    LET l == procs[p]
        rows == IF stmtFails THEN {}
                ELSE selectSynonym(query_synonyms, normalizedOf[l.query])
    IN
    /\ process = "running" /\ l.op = "lookup" /\ l.pc = "findSynonymQuery"
    /\ \/ /\ \E r \in rows :
               procs' = [procs EXCEPT ![p] =
                           [query |-> l.query, state |-> l.state, city |-> l.city,
                            op |-> "lookup", pc |-> "querySynonym",
                            startTime |-> l.startTime, expect |-> l.expect,
                            cleared |-> l.cleared, synCase |-> l.synCase, quiet |-> l.quiet,
                            spelled |-> l.spelled,
                            sources |-> consulted(l, "synonym", TRUE).sources,
                            synonymQuery |-> r.base_query]]
          /\ hist' = observe(hist)
          /\ UNCHANGED << statsTasks, ret >>
       \/ /\ rows = {}
          /\ lookupMiss(p, consulted(l, "synonym", FALSE))
    /\ UNCHANGED << now, process, db, isInitialized, timers, tables, io,
                    memoryCache, search_cache, sqlite_sequence, cache_stats,
                    popular_queries, query_synonyms, opsStarted >>
    /\ requests' = resume(p)

\* lines 167-173: queryDatabase(synonymKey)
LookupQuerySynonym(p) ==
    LET l == procs[p]
        synonymKey == cacheKeyOf[l.synonymQuery, l.state, l.city]
        rows == IF stmtFails THEN {} ELSE selectLive(search_cache, synonymKey, now)
    IN
    /\ process = "running" /\ l.op = "lookup" /\ l.pc = "querySynonym"
    /\ \/ /\ \E r \in rows :
               procs' = [procs EXCEPT ![p] =
                           [query |-> l.query, state |-> l.state, city |-> l.city,
                            op |-> "lookup", pc |-> "updateHitCount",
                            startTime |-> l.startTime, expect |-> l.expect,
                            cleared |-> l.cleared, synCase |-> l.synCase, quiet |-> l.quiet,
                            spelled |-> l.spelled,
                            sources |-> consulted(l, "persistent", TRUE).sources,
                            dbResult |-> r, tier |-> "synonym"]]
          /\ hist' = observe(hist)
          /\ UNCHANGED << statsTasks, ret >>
       \/ /\ rows = {}
          /\ lookupMiss(p, consulted(l, "persistent", FALSE))
    /\ UNCHANGED << now, process, db, isInitialized, timers, tables, io,
                    memoryCache, search_cache, sqlite_sequence, cache_stats,
                    popular_queries, query_synonyms, opsStarted >>
    /\ requests' = resume(p)

\* lines 175-188 (updateHitCount, 295-310): the UPDATE runs (an err is only
\* logged), the entry is put in the memory tier under the requested key, a hit
\* is recorded and the parsed payload returned; lines 194-197 when JSON.parse
\* throws
LookupUpdateHitCount(p) ==
    LET l == procs[p] IN
    /\ process = "running" /\ l.op = "lookup" /\ l.pc = "updateHitCount"
    /\ search_cache' = IF stmtFails THEN search_cache
                       ELSE touchRow(search_cache, l.dbResult.id, now)
    /\ IF isJSON(l.dbResult.search_results)
       THEN /\ memoryCache' = addToMemoryCache(memoryCache, keyOf(l),
                  [ results |-> JSONparse(l.dbResult.search_results),
                    expires_at |-> dateGetTime(l.dbResult.expires_at) ])
            /\ statsTasks' = statsTasks (+) SetToBag({statsTask(TRUE)})
            /\ hist' = putOf(countLookup(observe(hist), TRUE), memoryCache,
                             keyOf(l), memoryCache')
            /\ ret' = lookupReturn(l, JSONparse(l.dbResult.search_results), l.tier,
                                   dateGetTime(l.dbResult.expires_at))
            /\ procs' = [procs EXCEPT ![p] = Idle]
       ELSE /\ lookupMiss(p, l)
            /\ UNCHANGED memoryCache
    /\ UNCHANGED << now, process, db, isInitialized, timers, tables, io,
                    sqlite_sequence, cache_stats, popular_queries,
                    query_synonyms, opsStarted >>
    /\ requests' = resume(p)

(***************************************************************************)
(* updateCacheStats(wasHit, responseTimeMs), lines 376-427.  The caller    *)
(* does not await it: its two statements run on their own.                *)
(* avg_response_time_ms is left out: no statement reads it back into a     *)
(* decision.                                                               *)
(***************************************************************************)
NoRow == [id |-> 0]

removeTask(t) == statsTasks (-) SetToBag({t})

\* lines 380-387: SELECT * FROM cache_stats WHERE date = ?
StatsCheck(t) ==
    /\ process = "running" /\ BagIn(t, statsTasks) /\ t.pc = "check"
    /\ IF stmtFails
       THEN statsTasks' = removeTask(t)
       ELSE LET rows == { r \in cache_stats : r.date = t.today }
                row  == IF rows = {} THEN NoRow ELSE CHOOSE r \in rows : TRUE
            IN  statsTasks' = removeTask(t) (+)
                    SetToBag({[wasHit |-> t.wasHit, today |-> t.today,
                               pc |-> "write", row |-> row]})
    /\ hist' = observe(hist)
    /\ UNCHANGED << now, process, db, isInitialized, timers, tables, io,
                    memoryCache, search_cache, sqlite_sequence, cache_stats,
                    popular_queries, query_synonyms, procs, opsStarted, ret,
                    requests >>

\* an UPDATE that takes total_requests from the row read before and adds to
\* the other columns as they are now
statsUpdateInPlace(rows, t) ==
    { IF r.date = t.today
      THEN [ date |-> r.date,
             total_requests  |-> t.row.total_requests + 1,
             cache_hits      |-> r.cache_hits + (IF t.wasHit THEN 1 ELSE 0),
             cache_misses    |-> r.cache_misses + (IF t.wasHit THEN 0 ELSE 1),
             api_calls_saved |-> r.api_calls_saved + (IF t.wasHit THEN 1 ELSE 0) ]
      ELSE r : r \in rows }

\* lines 389-409: UPDATE cache_stats SET total_requests = ?, ... WHERE date = ?
\* with the values computed from the row read before
statsUpdate(rows, t) ==
    { IF r.date = t.today
      THEN [ date |-> r.date,
             total_requests  |-> t.row.total_requests + 1,
             cache_hits      |-> t.row.cache_hits + (IF t.wasHit THEN 1 ELSE 0),
             cache_misses    |-> t.row.cache_misses + (IF t.wasHit THEN 0 ELSE 1),
             api_calls_saved |-> t.row.api_calls_saved + (IF t.wasHit THEN 1 ELSE 0) ]
      ELSE r : r \in rows }

\* lines 410-424: INSERT INTO cache_stats ...; UNIQUE(date) makes it fail when
\* the day's row exists by now
statsInsert(rows, t) ==
    IF \E r \in rows : r.date = t.today
    THEN rows
    ELSE rows \cup { [ date |-> t.today, total_requests |-> 1,
                       cache_hits      |-> IF t.wasHit THEN 1 ELSE 0,
                       cache_misses    |-> IF t.wasHit THEN 0 ELSE 1,
                       api_calls_saved |-> IF t.wasHit THEN 1 ELSE 0 ] }

StatsWrite(t) ==
    /\ process = "running" /\ BagIn(t, statsTasks) /\ t.pc = "write"
    /\ cache_stats' = IF stmtFails THEN cache_stats
                      ELSE IF t.row # NoRow THEN statsUpdate(cache_stats, t)
                      ELSE statsInsert(cache_stats, t)
    /\ statsTasks' = removeTask(t)
    /\ hist' = observe(hist)
    /\ UNCHANGED << now, process, db, isInitialized, timers, tables, io,
                    memoryCache, search_cache, sqlite_sequence, popular_queries,
                    query_synonyms, procs, opsStarted, ret,
                    requests >>

(***************************************************************************)
(* storeResult(query, state, city, results)                                *)
(***************************************************************************)
\* lines 227-230
StoreNotInitialized(p, query, state, city, results) ==
    /\ process = "running" /\ procs[p] = Idle /\ opsStarted < MaxOps
    /\ ~isInitialized
    /\ opsStarted' = opsStarted + 1
    /\ ret' = [op |-> "store", stored |-> FALSE]
    /\ UNCHANGED << now, process, db, isInitialized, timers, tables, io,
                    memoryCache, search_cache, sqlite_sequence, cache_stats,
                    popular_queries, query_synonyms, procs, statsTasks, hist >>
    /\ requests' = resume(p)

\* lines 232-239: the key, expiresAt and the JSON text are computed, then
\* insertCacheEntry is awaited
StoreStart(p, query, state, city, results) ==
    LET cacheKey == cacheKeyOf[query, state, city] IN
    /\ process = "running" /\ procs[p] = Idle /\ opsStarted < MaxOps
    /\ isInitialized
    /\ opsStarted' = opsStarted + 1
    /\ procs' = [disturb(procs, {cacheKey}) EXCEPT ![p] =
                    [ op |-> "store", pc |-> "insertCacheEntry", query |-> query,
                      state |-> state, city |-> city, results |-> results,
                      expiresAt |-> now + defaultCacheExpiration,
                      resultsJson |-> JSONstringify(results),
                      alone |-> ~storeInFlight(cacheKey, p), voided |-> FALSE ]]
    /\ hist' = [hist EXCEPT !.fresh = { f \in @ : f.key # cacheKey },
                            !.cleared = {}, !.spelled = NoSpelled]
    /\ UNCHANGED << now, process, db, isInitialized, timers, tables, io,
                    memoryCache, search_cache, sqlite_sequence, cache_stats,
                    popular_queries, query_synonyms, statsTasks, ret >>
    /\ requests' = resume(p)

\* storeResult returns: the slot is free again
storeReturn(p, h, inserted) ==
    LET st == procs[p]
        cacheKey == keyOf(st)
        others == { f \in h.fresh : f.key # cacheKey }
    IN
    /\ procs' = [procs EXCEPT ![p] = Idle]
    /\ ret' = [op |-> "store", stored |-> inserted]
    /\ hist' = IF inserted
               THEN [h EXCEPT
                       !.stored = @ \cup {cacheKey},
                       !.fresh = IF storeInFlight(cacheKey, p) \/ st.voided
                                 THEN others
                                 ELSE others \cup
                                      { [ key |-> cacheKey, results |-> st.results,
                                          expires_at |-> st.expiresAt,
                                          serial |-> st.alone,
                                          earlier |-> cacheKey \in h.stored ] },
                       !.spelled =
                           IF st.alone /\ ~st.voided /\ ~storeInFlight(cacheKey, p)
                           THEN [ done |-> TRUE, query |-> st.query,
                                  state |-> st.state, city |-> st.city,
                                  results |-> st.results, key |-> cacheKey,
                                  expires_at |-> st.expiresAt ]
                           ELSE NoSpelled]
               ELSE h

\* a store that puts the entry in the memory tier although the INSERT failed
StoreInsertThenPut(p) ==
    LET st == procs[p] IN
    /\ process = "running" /\ st.op = "store" /\ st.pc = "insertCacheEntry"
    /\ IF stmtFails
       THEN /\ storeReturn(p, used(observe(hist), "store"), FALSE)
            /\ memoryCache' = addToMemoryCache(memoryCache, keyOf(st),
                                [results |-> st.results, expires_at |-> st.expiresAt])
            /\ UNCHANGED << search_cache, sqlite_sequence >>
       ELSE /\ search_cache' = insertOrReplace(search_cache, sqlite_sequence + 1,
                                   keyOf(st), st.resultsJson, st.expiresAt, now)
            /\ sqlite_sequence' = sqlite_sequence + 1
            /\ memoryCache' = addToMemoryCache(memoryCache, keyOf(st),
                                [results |-> st.results, expires_at |-> st.expiresAt])
            /\ hist' = putOf(hist, memoryCache, keyOf(st), memoryCache')
            /\ procs' = [procs EXCEPT ![p].pc = "popularCheck"]
            /\ UNCHANGED ret
    /\ UNCHANGED << now, process, db, isInitialized, timers, tables, io,
                    cache_stats, popular_queries, query_synonyms, statsTasks,
                    opsStarted >>
    /\ requests' = resume(p)


\* lines 239-248 (insertCacheEntry, 260-277): INSERT OR REPLACE runs; on err the
\* promise rejects and line 252 catches it; else the entry is put in the
\* memory tier and updatePopularQuery is awaited
StoreInsert(p) ==
    LET st == procs[p] IN
    /\ process = "running" /\ st.op = "store" /\ st.pc = "insertCacheEntry"
    /\ IF stmtFails
       THEN /\ storeReturn(p, used(observe(hist), "store"), FALSE)
            /\ UNCHANGED << search_cache, sqlite_sequence, memoryCache >>
       ELSE /\ search_cache' = insertOrReplace(search_cache, sqlite_sequence + 1,
                                   keyOf(st), st.resultsJson, st.expiresAt, now)
            /\ sqlite_sequence' = sqlite_sequence + 1
            /\ memoryCache' = addToMemoryCache(memoryCache, keyOf(st),
                                [results |-> st.results, expires_at |-> st.expiresAt])
            /\ hist' = putOf(hist, memoryCache, keyOf(st), memoryCache')
            /\ procs' = [procs EXCEPT ![p].pc = "popularCheck"]
            /\ UNCHANGED ret
    /\ UNCHANGED << now, process, db, isInitialized, timers, tables, io,
                    cache_stats, popular_queries, query_synonyms, statsTasks,
                    opsStarted >>
    /\ requests' = resume(p)

\* updatePopularQuery, lines 317-324: SELECT id, states_searched FROM
\* popular_queries WHERE normalized_query = ?
StorePopularCheck(p) ==
    LET st == procs[p]
        rows == { r \in popular_queries : r.normalized_query = normalizedOf[st.query] }
    IN
    /\ process = "running" /\ st.op = "store" /\ st.pc = "popularCheck"
    /\ IF stmtFails
       THEN storeReturn(p, observe(hist), TRUE)
       ELSE /\ procs' = [procs EXCEPT ![p] =
                   [ op |-> "store", pc |-> "popularWrite", query |-> st.query,
                     state |-> st.state, city |-> st.city, results |-> st.results,
                     expiresAt |-> st.expiresAt, resultsJson |-> st.resultsJson,
                     alone |-> st.alone, voided |-> st.voided,
                     row |-> IF rows = {} THEN NoRow
                             ELSE LET r == CHOOSE r \in rows : TRUE
                                  IN  [id |-> r.id, states_searched |-> r.states_searched] ]]
            /\ UNCHANGED << ret, hist >>
    /\ UNCHANGED << now, process, db, isInitialized, timers, tables, io,
                    memoryCache, search_cache, sqlite_sequence, cache_stats,
                    popular_queries, query_synonyms, statsTasks, opsStarted >>
    /\ requests' = resume(p)

\* lines 326-337: the states read before, with this state pushed if missing
\* (states_searched holds JSON.stringify of an array)
pushState(statesJson, state) ==
    LET states == IF isJSON(statesJson) THEN JSONparse(statesJson) ELSE <<>>
    IN  IF state \in Range(states) THEN states ELSE Append(states, state)

\* lines 339-353: UPDATE popular_queries SET search_count = search_count + 1,
\* avg_results = (avg_results + ?) / 2, states_searched = ? WHERE id = ?
\* (both operands of / are integers, so SQLite divides as integers)
popularUpdate(rows, row, state, resultCount, t) ==
    { IF r.id = row.id
      THEN [ id |-> r.id, normalized_query |-> r.normalized_query,
             search_count |-> r.search_count + 1,
             avg_results |-> (r.avg_results + resultCount) \div 2,
             states_searched |-> JSONstringify(pushState(row.states_searched, state)),
             last_searched |-> sqlDatetime(t) ]
      ELSE r : r \in rows }

\* lines 355-367: INSERT INTO popular_queries ...; UNIQUE(normalized_query)
\* makes it fail when the query has a row by now
popularInsert(rows, normalizedQuery, state, resultCount, t) ==
    IF \E r \in rows : r.normalized_query = normalizedQuery
    THEN rows
    ELSE rows \cup { [ id |-> Cardinality(rows) + 1,
                       normalized_query |-> normalizedQuery, search_count |-> 1,
                       avg_results |-> resultCount,
                       states_searched |-> JSONstringify(<<state>>),
                       last_searched |-> sqlDatetime(t) ] }

\* line 248: results.services ? results.services.length : 0
resultCount(results) == results.services

\* a store that calls updateCacheStats when it is done
StorePopularWriteCounted(p) ==
    LET st == procs[p] IN
    /\ process = "running" /\ st.op = "store" /\ st.pc = "popularWrite"
    /\ popular_queries' =
          IF stmtFails THEN popular_queries
          ELSE IF st.row # NoRow
               THEN popularUpdate(popular_queries, st.row, st.state,
                                  resultCount(st.results), now)
               ELSE popularInsert(popular_queries, normalizedOf[st.query],
                                  st.state, resultCount(st.results), now)
    /\ storeReturn(p, observe(hist), TRUE)
    /\ statsTasks' = statsTasks (+) SetToBag({statsTask(FALSE)})
    /\ UNCHANGED << now, process, db, isInitialized, timers, tables, io,
                    memoryCache, search_cache, sqlite_sequence, cache_stats,
                    query_synonyms, opsStarted >>
    /\ requests' = resume(p)

StorePopularWrite(p) ==
    LET st == procs[p] IN
    /\ process = "running" /\ st.op = "store" /\ st.pc = "popularWrite"
    /\ popular_queries' =
          IF stmtFails THEN popular_queries
          ELSE IF st.row # NoRow
               THEN popularUpdate(popular_queries, st.row, st.state,
                                  resultCount(st.results), now)
               ELSE popularInsert(popular_queries, normalizedOf[st.query],
                                  st.state, resultCount(st.results), now)
    /\ storeReturn(p, observe(hist), TRUE)
    /\ UNCHANGED << now, process, db, isInitialized, timers, tables, io,
                    memoryCache, search_cache, sqlite_sequence, cache_stats,
                    query_synonyms, statsTasks, opsStarted >>
    /\ requests' = resume(p)

(***************************************************************************)
(* initialize(), lines 28-59, called by initializeServices (server.js      *)
(* 91-100), which catches what it throws and lets the server run on        *)
(***************************************************************************)
\* the database opens, schema.sql runs, the cleanup intervals start
InitializeOk ==
    /\ process = "constructed"
    /\ db' = "open"
    /\ tables' = TRUE
    /\ query_synonyms' = insertSeeds(query_synonyms)
    /\ timers' = TRUE
    /\ isInitialized' = TRUE
    /\ process' = "running"
    /\ UNCHANGED << now, io, memoryCache, search_cache, sqlite_sequence,
                    cache_stats, popular_queries, procs, statsTasks, opsStarted,
                    ret, hist,
                    requests >>

\* lines 31-34: fs.mkdirSync throws inside the try; initialize rethrows
InitializeMkdirFails ==
    /\ process = "constructed"
    /\ process' = "running"
    /\ hist' = [hist EXCEPT !.initFailed = TRUE]
    /\ UNCHANGED << now, db, isInitialized, timers, tables, io, memoryCache,
                    search_cache, sqlite_sequence, cache_stats, popular_queries,
                    query_synonyms, procs, statsTasks, opsStarted, ret,
                    requests >>

\* lines 38-44: the file cannot be opened; the callback of new Database(...)
\* runs after initialize has suspended at line 47, so its "throw err" is
\* caught by no try block: an uncaught exception ends the process
InitializeOpenFails ==
    /\ process = "constructed"
    /\ db' = "closed"
    /\ process' = "crashed"
    /\ hist' = [hist EXCEPT !.initFailed = TRUE]
    /\ UNCHANGED << now, isInitialized, timers, tables, io, memoryCache,
                    search_cache, sqlite_sequence, cache_stats, popular_queries,
                    query_synonyms, procs, statsTasks, opsStarted, ret,
                    requests >>

\* lines 47, 64-79: the database opens but schema.sql cannot be read or run;
\* createTables rejects and initialize rethrows
InitializeSchemaFails ==
    /\ process = "constructed"
    /\ db' = "open"
    /\ process' = "running"
    /\ hist' = [hist EXCEPT !.initFailed = TRUE]
    /\ UNCHANGED << now, isInitialized, timers, tables, io, memoryCache,
                    search_cache, sqlite_sequence, cache_stats, popular_queries,
                    query_synonyms, procs, statsTasks, opsStarted, ret,
                    requests >>

(***************************************************************************)
(* The environment: the clock and the persistent tier's health             *)
(***************************************************************************)
Tick ==
    /\ process = "running"
    /\ now < MaxTime
    /\ now' = now + 1
    /\ UNCHANGED << process, db, isInitialized, timers, tables, io, memoryCache,
                    search_cache, sqlite_sequence, cache_stats, popular_queries,
                    query_synonyms, procs, statsTasks, opsStarted, ret, hist,
                    requests >>

\* the persistent tier starts to answer every statement with err
IoBreak ==
    /\ process = "running" /\ isInitialized
    /\ io = "ok"
    /\ io' = "failing"
    /\ UNCHANGED << now, process, db, isInitialized, timers, tables, memoryCache,
                    search_cache, sqlite_sequence, cache_stats, popular_queries,
                    query_synonyms, procs, statsTasks, opsStarted, ret, hist,
                    requests >>

IoRepair ==
    /\ process = "running"
    /\ io = "failing"
    /\ io' = "recovered"
    /\ UNCHANGED << now, process, db, isInitialized, timers, tables, memoryCache,
                    search_cache, sqlite_sequence, cache_stats, popular_queries,
                    query_synonyms, procs, statsTasks, opsStarted, ret, hist,
                    requests >>

\* query_synonyms is edited from outside (the cache never writes it after the
\* seeds): a mapping of "driving license renewal" is added, with its own
\* confidence_score and is_active, or a mapping is switched off
EditSynonyms ==
    LET added == { [base_query |-> QDl, synonym_query |-> QDrivingLicenseRenewal,
                    confidence_score |-> 99, is_active |-> 1],
                   [base_query |-> QDl, synonym_query |-> QDrivingLicenseRenewal,
                    confidence_score |-> 100, is_active |-> 0],
                   [base_query |-> QDl, synonym_query |-> QDlRenewal,
                    confidence_score |-> 100, is_active |-> 1] }
        same(e, r) == /\ r.base_query = e.base_query
                      /\ r.synonym_query = e.synonym_query
                      /\ r.confidence_score = e.confidence_score
    IN
    /\ process = "running" /\ isInitialized
    /\ \A o \in Procs : procs[o] = Idle
    /\ \/ \E e \in added :
             /\ \A r \in query_synonyms : ~same(e, r)
             /\ query_synonyms' = query_synonyms \cup
                   { [ id |-> Cardinality(query_synonyms) + 1,
                       base_query |-> e.base_query, synonym_query |-> e.synonym_query,
                       confidence_score |-> e.confidence_score,
                       is_active |-> e.is_active ] }
       \/ \E r \in query_synonyms :
             /\ r.is_active = 1 /\ r.synonym_query = QDrivingLicenseRenewal
             /\ query_synonyms' = (query_synonyms \ {r}) \cup
                                     { [r EXCEPT !.is_active = 0] }
    /\ UNCHANGED << now, process, db, isInitialized, timers, tables, io,
                    memoryCache, search_cache, sqlite_sequence, cache_stats,
                    popular_queries, procs, statsTasks, opsStarted, ret, hist,
                    requests >>

\* the database file is edited from outside: the search_results of a row is no
\* longer JSON text
Malformed == <<"{">>

CorruptPayload ==
    /\ process = "running"
    /\ \E r \in search_cache :
          /\ isJSON(r.search_results)
          /\ search_cache' = (search_cache \ {r}) \cup
                                 {[r EXCEPT !.search_results = Malformed]}
          /\ hist' = [hist EXCEPT !.fresh = { f \in @ : f.key # r.query_hash }]
          /\ procs' = disturb(procs, {r.query_hash})
    /\ UNCHANGED << now, process, db, isInitialized, timers, tables, io,
                    memoryCache, sqlite_sequence, cache_stats, popular_queries,
                    query_synonyms, statsTasks, opsStarted, ret,
                    requests >>

(***************************************************************************)
(* The operations of the reporting and admin surface.  Each is one         *)
(* statement; with this.db null, "this.db.run" throws a TypeError inside   *)
(* the promise executor and the promise rejects.                           *)
(***************************************************************************)
allKeys == { cacheKeyOf[k] : k \in DOMAIN cacheKeyOf }

\* a clearAllCache that empties popular_queries as well
ClearAllCacheAndCounts ==
    /\ process = "running" /\ opsStarted < MaxOps
    /\ opsStarted' = opsStarted + 1
    /\ IF db = "null"
       THEN /\ ret' = [op |-> "clearAll", threw |-> TRUE]
            /\ UNCHANGED << search_cache, hist, procs, popular_queries >>
       ELSE IF stmtFails
       THEN /\ ret' = [op |-> "clearAll", threw |-> FALSE, result |-> FALSE]
            /\ hist' = observe(hist)
            /\ UNCHANGED << search_cache, procs, popular_queries >>
       ELSE /\ search_cache' = {}
            /\ popular_queries' = {}
            /\ ret' = [op |-> "clearAll", threw |-> FALSE, result |-> TRUE]
            /\ hist' = [hist EXCEPT
                          !.fresh = {},
                          !.cleared = { k \in hist.stored : ~storeInFlight(k, "none") }]
            /\ procs' = void(disturb(procs, allKeys))
    /\ UNCHANGED << now, process, db, isInitialized, timers, tables, io,
                    memoryCache, sqlite_sequence, cache_stats,
                    query_synonyms, statsTasks,
                    requests >>

\* clearAllCache, lines 517-529: DELETE FROM search_cache
ClearAllCache ==
    /\ process = "running" /\ opsStarted < MaxOps
    /\ opsStarted' = opsStarted + 1
    /\ IF db = "null"
       THEN /\ ret' = [op |-> "clearAll", threw |-> TRUE]
            /\ UNCHANGED << search_cache, hist, procs >>
       ELSE IF stmtFails
       THEN /\ ret' = [op |-> "clearAll", threw |-> FALSE, result |-> FALSE]
            /\ hist' = observe(hist)
            /\ UNCHANGED << search_cache, procs >>
       ELSE /\ search_cache' = {}
            /\ ret' = [op |-> "clearAll", threw |-> FALSE, result |-> TRUE]
            /\ hist' = [hist EXCEPT
                          !.fresh = {},
                          !.cleared = { k \in hist.stored : ~storeInFlight(k, "none") }]
            /\ procs' = void(disturb(procs, allKeys))
    /\ UNCHANGED << now, process, db, isInitialized, timers, tables, io,
                    memoryCache, sqlite_sequence, cache_stats, popular_queries,
                    query_synonyms, statsTasks,
                    requests >>

\* clearExpiredEntries, lines 498-512: resolves this.changes, or 0 on err
ClearExpiredEntries ==
    /\ process = "running" /\ opsStarted < MaxOps
    /\ opsStarted' = opsStarted + 1
    /\ IF db = "null"
       THEN /\ ret' = [op |-> "clearExpired", threw |-> TRUE]
            /\ UNCHANGED << search_cache, hist >>
       ELSE IF stmtFails
       THEN /\ ret' = [op |-> "clearExpired", threw |-> FALSE, result |-> 0]
            /\ hist' = observe(hist)
            /\ UNCHANGED search_cache
       ELSE /\ search_cache' = deleteExpired(search_cache, now)
            /\ ret' = [op |-> "clearExpired", threw |-> FALSE,
                       result |-> Cardinality(search_cache \ deleteExpired(search_cache, now)),
                       before |-> search_cache, at |-> now,
                       after |-> deleteExpired(search_cache, now)]
            /\ UNCHANGED hist
    /\ UNCHANGED << now, process, db, isInitialized, timers, tables, io,
                    memoryCache, sqlite_sequence, cache_stats, popular_queries,
                    query_synonyms, procs, statsTasks,
                    requests >>

\* the largest limit getPopularQueries is called with
MaxLimit == 2

\* ORDER BY search_count ASC, last_searched ASC
sortsBeforeAscending(a, b) ==
    \/ a.search_count < b.search_count
    \/ a.search_count = b.search_count /\ textLess(a.last_searched, b.last_searched)

\* ORDER BY search_count DESC, last_searched DESC: a must come before b
sortsBefore(a, b) ==
    \/ a.search_count > b.search_count
    \/ a.search_count = b.search_count /\ textLess(b.last_searched, a.last_searched)

\* the orders the ORDER BY clause allows for the rows (rows it does not tell
\* apart come in any order)
orderBy(rows) ==
    { o \in [1..Cardinality(rows) -> rows] :
        /\ \A i, j \in 1..Cardinality(rows) : i # j => o[i] # o[j]
        /\ \A i, j \in 1..Cardinality(rows) : i < j => ~sortsBefore(o[j], o[i]) }

\* LIMIT ?: the first n rows; a negative n sets no limit
sqlLimit(o, n) == IF n < 0 \/ n >= Len(o) THEN o ELSE SubSeq(o, 1, n)

\* lines 489-492: rows.map(row => ({...row, states_searched: JSON.parse(...)}))
popularRecord(row) ==
    [ normalized_query |-> row.normalized_query, search_count |-> row.search_count,
      avg_results |-> row.avg_results,
      states_searched |-> JSONparse(row.states_searched),
      last_searched |-> row.last_searched ]

\* getPopularQueries(limit), lines 472-493
GetPopularQueries(limit) ==
    /\ process = "running"
    /\ IF db = "null"
       THEN ret' = [op |-> "popular", threw |-> TRUE] /\ UNCHANGED hist
       ELSE IF stmtFails
       THEN /\ ret' = [op |-> "popular", threw |-> FALSE,
                       result |-> [error |-> "Failed to get popular queries"]]
            /\ hist' = observe(hist)
       ELSE /\ \E o \in orderBy(popular_queries) :
                 ret' = [op |-> "popular", threw |-> FALSE, limit |-> limit,
                         table |-> { popularRecord(r) : r \in popular_queries },
                         result |-> [i \in 1..Len(sqlLimit(o, limit)) |->
                                        popularRecord(sqlLimit(o, limit)[i])]]
            /\ UNCHANGED hist
    /\ UNCHANGED << now, process, db, isInitialized, timers, tables, io,
                    memoryCache, search_cache, sqlite_sequence, cache_stats,
                    popular_queries, query_synonyms, procs, statsTasks, opsStarted,
                    requests >>

RECURSIVE sumOf(_, _)
sumOf(rows, column) ==
    IF rows = {} THEN 0
    ELSE LET r == CHOOSE r \in rows : TRUE
         IN  r[column] + sumOf(rows \ {r}, column)

\* (x / y * 100).toFixed(2), as the hundredths it prints: "70.00" is 7000
toFixed2Percent(x, y) == (20000 * x + y) \div (2 * y)

\* getCacheStats(days), lines 432-467: the rows of the last days, summed
\* (WHERE date >= date('now', '-N days'))
cacheStatsOf(days) ==
    LET rows == { r \in cache_stats : r.date >= isoDate(now) - days }
        totalRequests == sumOf(rows, "total_requests")
        totalHits == sumOf(rows, "cache_hits")
    IN  [ summary |->
            [ total_requests |-> totalRequests,
              cache_hits |-> totalHits,
              cache_misses |-> sumOf(rows, "cache_misses"),
              hit_rate |-> IF totalRequests > 0
                           THEN toFixed2Percent(totalHits, totalRequests) ELSE 0,
              api_calls_saved |-> sumOf(rows, "api_calls_saved"),
              memory_cache_size |-> Len(memoryCache) ],
          daily_stats |-> rows ]

GetCacheStats(days) ==
    /\ process = "running"
    /\ IF db = "null"
       THEN ret' = [op |-> "stats", threw |-> TRUE] /\ UNCHANGED hist
       ELSE IF stmtFails
       THEN /\ ret' = [op |-> "stats", threw |-> FALSE,
                       result |-> [error |-> "Failed to get cache statistics"]]
            /\ hist' = observe(hist)
       ELSE /\ ret' = [op |-> "stats", threw |-> FALSE, result |-> cacheStatsOf(days)]
            /\ UNCHANGED hist
    /\ UNCHANGED << now, process, db, isInitialized, timers, tables, io,
                    memoryCache, search_cache, sqlite_sequence, cache_stats,
                    popular_queries, query_synonyms, procs, statsTasks, opsStarted,
                    requests >>

\* router.get('/health'), search.js 309-340
healthOf(stats) ==
    LET hasSummary == "summary" \in DOMAIN stats
        isHealthy == hasSummary /\ stats.summary.total_requests > 0
    IN  [ status |-> IF isHealthy THEN "healthy" ELSE "no_activity",
          cache_initialized |-> isInitialized,
          memory_cache_size |-> IF hasSummary THEN stats.summary.memory_cache_size ELSE 0,
          last_24h_requests |-> IF hasSummary THEN stats.summary.total_requests ELSE 0,
          hit_rate_24h |-> IF hasSummary THEN stats.summary.hit_rate ELSE 0 ]

\* (broken: what was known of the cache before the call)
Health ==
    LET broken == hist.initFailed \/ hist.errorSeen IN
    /\ process = "running"
    /\ IF db = "null"
       THEN /\ ret' = [op |-> "health", broken |-> broken,
                       health |-> [status |-> "error", cache_initialized |-> FALSE]]
            /\ UNCHANGED hist
       ELSE IF stmtFails
       THEN /\ ret' = [op |-> "health", broken |-> broken,
                       health |-> healthOf([error |-> "Failed to get cache statistics"])]
            /\ hist' = observe(hist)
       ELSE /\ ret' = [op |-> "health", broken |-> broken,
                       health |-> healthOf(cacheStatsOf(1))]
            /\ UNCHANGED hist
    /\ UNCHANGED << now, process, db, isInitialized, timers, tables, io,
                    memoryCache, search_cache, sqlite_sequence, cache_stats,
                    popular_queries, query_synonyms, procs, statsTasks, opsStarted,
                    requests >>

(***************************************************************************)
(* startCleanupProcess, lines 534-551: the two intervals                   *)
(***************************************************************************)
\* every hour: clearExpiredEntries()
SweepPersistent ==
    /\ process = "running" /\ timers
    /\ search_cache' = IF stmtFails THEN search_cache
                       ELSE deleteExpired(search_cache, now)
    /\ hist' = used(observe(hist), "persistent sweep")
    /\ UNCHANGED << now, process, db, isInitialized, timers, tables, io,
                    memoryCache, sqlite_sequence, cache_stats, popular_queries,
                    query_synonyms, procs, statsTasks, opsStarted, ret,
                    requests >>

\* every 10 minutes: the entries with expires_at <= now leave the Map
\* (hist.swept turns at each run that is watched)
SweepMemory(watched) ==
    /\ process = "running" /\ timers
    /\ memoryCache' = sweepMemory(memoryCache, now)
    /\ hist' = IF watched
               THEN [used(hist, "memory sweep") EXCEPT !.swept = ~@]
               ELSE used(hist, "memory sweep")
    /\ UNCHANGED << now, process, db, isInitialized, timers, tables, io,
                    search_cache, sqlite_sequence, cache_stats, popular_queries,
                    query_synonyms, procs, statsTasks, opsStarted, ret,
                    requests >>

(***************************************************************************)
(* router.post("/search"), search.js 9-170                                  *)
(***************************************************************************)
Fields == { "query", "state", "city" }

\* req.body: an object with some of the fields; a field may hold ""
Bodies ==
    { [query |-> QDlRenewal, state |-> GoaState, city |-> CapitalCity],
      [state |-> GoaState, city |-> CapitalCity],
      [query |-> QDlRenewal, state |-> <<>>, city |-> CapitalCity],
      [query |-> QDlRenewal, state |-> GoaState] }

\* a body that is never found wanting
noFieldMissing(body) == FALSE

\* line 15: !query || !state || !city
missingFields(body) == \E f \in Fields : f \notin DOMAIN body \/ body[f] = <<>>

\* what is stored when the provider's answer is not JSON, lines 129-146
fallbackResult == [title |-> "Service Information Available", services |-> 1]

\* the handler is inside a call it has just made, not yet at the call's
\* first await
midCall(p) == requests[p].pc \in { "getCachedResult", "storeResult" } /\ procs[p] = Idle

Settled == \A p \in Procs : ~midCall(p)

\* lines 13-24: the request arrives; it is answered 400, or getCachedResult
\* is called
Search(p, body) ==
    LET known == DOMAIN body = Fields /\
                 <<body.query, body.state, body.city>> \in DOMAIN cacheKeyOf
        cacheKey == cacheKeyOf[body.query, body.state, body.city]
    IN
    /\ process = "running" /\ requests[p] = NoRequest /\ procs[p] = Idle
    /\ requests' = [requests EXCEPT ![p] =
          IF missingFields(body)
          THEN [ pc |-> "done", body |-> body, status |-> 400,
                 cache_source |-> "none", fetched |-> FALSE, cold |-> FALSE,
                 overlaps |-> {}, results |-> Null ]
          ELSE [ pc |-> "getCachedResult", body |-> body, status |-> 0,
                 cache_source |-> "none", fetched |-> FALSE,
                 cold |-> /\ known
                          /\ ~memHas(memoryCache, cacheKey)
                          /\ \A r \in search_cache : r.query_hash # cacheKey,
                 overlaps |-> { o \in Procs \ {p} :
                                  /\ requests[o].pc \notin { "none", "done" }
                                  /\ requests[o].body = body },
                 results |-> Null ]]
    /\ UNCHANGED << now, process, db, isInitialized, timers, tables, io,
                    memoryCache, search_cache, sqlite_sequence, cache_stats,
                    popular_queries, query_synonyms, procs, statsTasks,
                    opsStarted, ret, hist >>

\* lines 73-113 and 124-149: the provider has answered; storeResult is called
\* with the parsed answer, or with the fallback when the answer is not JSON
FetchAnswers(p, results, source) ==
    /\ process = "running" /\ requests[p].pc = "fetch"
    /\ requests' = [requests EXCEPT ![p] =
          [@ EXCEPT !.pc = "storeResult", !.results = results,
                    !.cache_source = source]]
    /\ UNCHANGED << now, process, db, isInitialized, timers, tables, io,
                    memoryCache, search_cache, sqlite_sequence, cache_stats,
                    popular_queries, query_synonyms, procs, statsTasks,
                    opsStarted, ret, hist >>

\* lines 92-94 and 163-168: the provider call fails; the answer is 500
FetchFails(p) ==
    /\ process = "running" /\ requests[p].pc = "fetch"
    /\ requests' = [requests EXCEPT ![p] = [@ EXCEPT !.pc = "done", !.status = 500]]
    /\ UNCHANGED << now, process, db, isInitialized, timers, tables, io,
                    memoryCache, search_cache, sqlite_sequence, cache_stats,
                    popular_queries, query_synonyms, procs, statsTasks,
                    opsStarted, ret, hist >>

(***************************************************************************)
(* normalizeQuery and generateCacheKey called on their own, on every text  *)
(* of at most MaxLen characters of Alphabet                                *)
(***************************************************************************)
MaxLen == 3

Alphabet == { "o", "f", "O", ".", " " }

RECURSIVE Texts(_)
Texts(n) ==
    IF n = 0 THEN { <<>> }
    ELSE Texts(n - 1) \cup { Append(x, ch) : x \in Texts(n - 1), ch \in Alphabet }

NormalizeCall(x) ==
    /\ ret' = [ op |-> "normalize", input |-> x, once |-> normalizeQuery(x),
                twice |-> normalizeQuery(normalizeQuery(x)) ]
    /\ UNCHANGED << now, process, db, isInitialized, timers, tables, io,
                    memoryCache, search_cache, sqlite_sequence, cache_stats,
                    popular_queries, query_synonyms, procs, statsTasks,
                    opsStarted, hist,
                    requests >>

(***************************************************************************)
(* close(), lines 556-567, and the handlers that call it                   *)
(***************************************************************************)
\* close(): the handle is closed and the Map cleared; the intervals of
\* startCleanupProcess were never kept, so none is cleared, and isInitialized
\* stays as it is
Close ==
    /\ process = "running" /\ db = "open"
    /\ db' = "closed"
    /\ memoryCache' = <<>>
    /\ hist' = [hist EXCEPT !.closed = TRUE, !.fresh = {}]
    /\ procs' = void(disturb(procs, allKeys))
    /\ ret' = [op |-> "close"]
    /\ UNCHANGED << now, process, isInitialized, timers, tables, io,
                    search_cache, sqlite_sequence, cache_stats, popular_queries,
                    query_synonyms, statsTasks, opsStarted,
                    requests >>

\* server.js 123-133: on SIGINT or SIGTERM close() is called and then
\* process.exit(0), which ends the process with its intervals
Shutdown ==
    /\ process = "running"
    /\ process' = "exited"
    /\ db' = IF db = "open" THEN "closed" ELSE db
    /\ memoryCache' = <<>>
    /\ hist' = [hist EXCEPT !.closed = TRUE, !.fresh = {}]
    /\ ret' = [op |-> "exit"]
    /\ UNCHANGED << now, isInitialized, timers, tables, io, search_cache,
                    sqlite_sequence, cache_stats, popular_queries,
                    query_synonyms, procs, statsTasks, opsStarted,
                    requests >>

(***************************************************************************)
(* The process ends (SIGINT/SIGTERM, server.js 123-133: close() and         *)
(* process.exit) and a new one is started on the same database file        *)
(***************************************************************************)
MaxRestarts == 1

Restart ==
    /\ process = "running"
    /\ hist.restarts < MaxRestarts
    /\ process' = "constructed"
    /\ db' = "null"
    /\ isInitialized' = FALSE
    /\ timers' = FALSE
    /\ memoryCache' = <<>>
    /\ procs' = [p \in Procs |-> Idle]
    /\ statsTasks' = EmptyBag
    /\ ret' = [op |-> "none"]
    /\ hist' = [hist EXCEPT !.restarts = @ + 1, !.closed = FALSE,
                            !.afterClose = {}]
    /\ UNCHANGED << now, tables, io, search_cache, sqlite_sequence, cache_stats,
                    popular_queries, query_synonyms, opsStarted,
                    requests >>

(***************************************************************************)
(* The specification                                                       *)
(***************************************************************************)

NoHistory ==
    [ fresh |-> {}, cleared |-> {}, stored |-> {}, errorSeen |-> FALSE,
      initFailed |-> FALSE, restarts |-> 0, lastPut |-> NoPut,
      closed |-> FALSE, afterClose |-> {}, spelled |-> NoSpelled,
      swept |-> FALSE,
      lookups |-> [d \in Days |-> [n |-> 0, h |-> 0]] ]

\* the state after "new CacheService()"
Constructed ==
    /\ now = 0
    /\ process = "constructed"
    /\ db = "null"
    /\ isInitialized = FALSE
    /\ timers = FALSE
    /\ io = "ok"
    /\ memoryCache = <<>>
    /\ cache_stats = {}
    /\ procs = [p \in Procs |-> Idle]
    /\ statsTasks = EmptyBag
    /\ opsStarted = 0
    /\ ret = [op |-> "none"]
    /\ requests = [p \in Procs |-> NoRequest]

\* ... on a database file not yet created
InitFresh ==
    /\ Constructed
    /\ tables = FALSE
    /\ search_cache = {}
    /\ sqlite_sequence = 0
    /\ popular_queries = {}
    /\ query_synonyms = {}
    /\ hist = NoHistory

\* ... on the database file of an earlier run of the process, which
\* initialized, completed storeResult("dl renewal", "Goa", "Capital", R1)
\* within this tick, and ended
EarlierKey == cacheKeyOf[QDlRenewal, GoaState, CapitalCity]

InitEarlierRun ==
    /\ Constructed
    /\ tables = TRUE
    /\ search_cache = insertOrReplace({}, 1, EarlierKey, JSONstringify(R1),
                                      defaultCacheExpiration, 0)
    /\ sqlite_sequence = 1
    /\ popular_queries = popularInsert({}, normalizedOf[QDlRenewal], GoaState,
                                       resultCount(R1), 0)
    /\ query_synonyms = insertSeeds({})
    /\ hist = [NoHistory EXCEPT
                 !.stored = {EarlierKey},
                 !.fresh = { [ key |-> EarlierKey, results |-> R1,
                               expires_at |-> defaultCacheExpiration,
                               serial |-> TRUE, earlier |-> FALSE ] }]

Init == InitFresh \/ InitEarlierRun

\* updateCacheStats calls run to their end before the next step of a request:
\* their statements touch cache_stats alone
StatsFirst == statsTasks = EmptyBag

StatsSteps == \E t \in BagToSet(statsTasks) : StatsCheck(t) \/ StatsWrite(t)

\* Spec: lookups and stores overlap in two request slots, within one tick,
\* on a persistent tier that answers every statement
Next ==
    \/ InitializeOk
    \/ \E p \in Procs, q \in Queries, s \in {GoaState}, c \in Cities :
          StatsFirst /\ LookupMemoryHit(p, q, s, c)
    \/ \E p \in Procs, q \in Queries, s \in {GoaState}, c \in Cities :
          StatsFirst /\ LookupMemoryMiss(p, q, s, c)
    \/ \E p \in Procs :
          StatsFirst /\ LookupQueryDatabase(p)
    \/ \E p \in Procs :
          StatsFirst /\ LookupFindSynonym(p)
    \/ \E p \in Procs :
          StatsFirst /\ LookupQuerySynonym(p)
    \/ \E p \in Procs :
          StatsFirst /\ LookupUpdateHitCount(p)
    \/ \E p \in Procs, q \in Queries, s \in {GoaState}, c \in Cities, r \in Payloads :
          StatsFirst /\ StoreStart(p, q, s, c, r)
    \/ \E p \in Procs :
          StatsFirst /\ StoreInsert(p)
    \/ \E p \in Procs :
          StatsFirst /\ StorePopularCheck(p)
    \/ \E p \in Procs :
          StatsFirst /\ StorePopularWrite(p)
    \/ StatsSteps

Spec == Init /\ [][Next]_vars

\* SpecSeq: one request at a time, within one tick, with the admin surface
NextSeq ==
    \/ InitializeOk
    \/ \E q \in Queries, s \in States, c \in Cities :
          StatsFirst /\ LookupMemoryHit("p1", q, s, c)
    \/ \E q \in Queries, s \in States, c \in Cities :
          StatsFirst /\ LookupMemoryMiss("p1", q, s, c)
    \/ StatsFirst /\ LookupQueryDatabase("p1")
    \/ StatsFirst /\ LookupFindSynonym("p1")
    \/ StatsFirst /\ LookupQuerySynonym("p1")
    \/ StatsFirst /\ LookupUpdateHitCount("p1")
    \/ \E q \in Queries, s \in States, c \in Cities, r \in Payloads :
          StatsFirst /\ StoreStart("p1", q, s, c, r)
    \/ StatsFirst /\ StoreInsert("p1")
    \/ StatsFirst /\ StorePopularCheck("p1")
    \/ StatsFirst /\ StorePopularWrite("p1")
    \/ StatsFirst /\ procs["p1"] = Idle /\ ClearAllCache
    \/ StatsSteps

SpecSeq == Init /\ [][NextSeq]_vars

\* SpecExpiry: one request at a time while the clock advances and the cleanup
\* intervals fire
NextExpiry ==
    \/ InitializeOk
    \/ \E q \in {QDrivingLicenseRenewal}, s \in {GoaState}, c \in Cities :
          StatsFirst /\ LookupMemoryHit("p1", q, s, c)
    \/ \E q \in {QDrivingLicenseRenewal}, s \in {GoaState}, c \in Cities :
          StatsFirst /\ LookupMemoryMiss("p1", q, s, c)
    \/ StatsFirst /\ LookupQueryDatabase("p1")
    \/ StatsFirst /\ LookupFindSynonym("p1")
    \/ StatsFirst /\ LookupQuerySynonym("p1")
    \/ StatsFirst /\ LookupUpdateHitCount("p1")
    \/ \E q \in {QDrivingLicenseRenewal}, s \in {GoaState}, c \in Cities, r \in Payloads :
          StatsFirst /\ StoreStart("p1", q, s, c, r)
    \/ StatsFirst /\ StoreInsert("p1")
    \/ StatsFirst /\ StorePopularCheck("p1")
    \/ StatsFirst /\ StorePopularWrite("p1")
    \/ StatsFirst /\ procs["p1"] = Idle /\ ClearExpiredEntries
    \/ StatsFirst /\ procs["p1"] = Idle /\ Tick
    \/ StatsFirst /\ SweepPersistent
    \/ StatsFirst /\ SweepMemory(FALSE)
    \/ StatsSteps

SpecExpiry == Init /\ [][NextExpiry]_vars

\* SpecStats: lookups follow one another while the updateCacheStats calls they
\* left behind are still running
NextStats ==
    \/ InitializeOk
    \/ \E q \in Queries, s \in States, c \in Cities :
          LookupMemoryHit("p1", q, s, c)
    \/ \E q \in Queries, s \in States, c \in Cities :
          LookupMemoryMiss("p1", q, s, c)
    \/ LookupQueryDatabase("p1")
    \/ LookupFindSynonym("p1")
    \/ LookupQuerySynonym("p1")
    \/ LookupUpdateHitCount("p1")
    \/ StatsSteps

SpecStats == Init /\ [][NextStats]_vars

\* SpecFaults: initialize() may fail, the persistent tier may start and stop
\* failing, a stored payload may be damaged; one request or admin call at a
\* time
NextFaults ==
    \/ InitializeOk
    \/ InitializeMkdirFails
    \/ InitializeOpenFails
    \/ InitializeSchemaFails
    \/ \E q \in Queries, s \in {GoaState}, c \in Cities :
          StatsFirst /\ LookupNotInitialized("p1", q, s, c)
    \/ \E q \in Queries, s \in {GoaState}, c \in Cities :
          StatsFirst /\ LookupMemoryHit("p1", q, s, c)
    \/ \E q \in Queries, s \in {GoaState}, c \in Cities :
          StatsFirst /\ LookupMemoryMiss("p1", q, s, c)
    \/ StatsFirst /\ LookupQueryDatabase("p1")
    \/ StatsFirst /\ LookupFindSynonym("p1")
    \/ StatsFirst /\ LookupQuerySynonym("p1")
    \/ StatsFirst /\ LookupUpdateHitCount("p1")
    \/ \E q \in Queries, s \in {GoaState}, c \in Cities, r \in Payloads :
          StatsFirst /\ StoreNotInitialized("p1", q, s, c, r)
    \/ \E q \in Queries, s \in {GoaState}, c \in Cities, r \in Payloads :
          StatsFirst /\ StoreStart("p1", q, s, c, r)
    \/ StatsFirst /\ StoreInsert("p1")
    \/ StatsFirst /\ StorePopularCheck("p1")
    \/ StatsFirst /\ StorePopularWrite("p1")
    \/ StatsFirst /\ procs["p1"] = Idle /\ ClearAllCache
    \/ StatsFirst /\ procs["p1"] = Idle /\ ClearExpiredEntries
    \/ StatsFirst /\ procs["p1"] = Idle /\ GetCacheStats(1)
    \/ StatsFirst /\ procs["p1"] = Idle /\ Health
    \/ StatsFirst /\ IoBreak
    \/ StatsFirst /\ IoRepair
    \/ StatsFirst /\ procs["p1"] = Idle /\ CorruptPayload
    \/ StatsSteps

SpecFaults == Init /\ [][NextFaults]_vars

\* SpecShutdown: requests, the cleanup intervals, close() and the signal
\* handlers
NextShutdown ==
    \/ InitializeOk
    \/ \E q \in {QDlRenewal}, s \in {GoaState}, c \in Cities :
          StatsFirst /\ LookupMemoryHit("p1", q, s, c)
    \/ \E q \in {QDlRenewal}, s \in {GoaState}, c \in Cities :
          StatsFirst /\ LookupMemoryMiss("p1", q, s, c)
    \/ StatsFirst /\ LookupQueryDatabase("p1")
    \/ StatsFirst /\ LookupFindSynonym("p1")
    \/ StatsFirst /\ LookupUpdateHitCount("p1")
    \/ \E q \in {QDlRenewal}, s \in {GoaState}, c \in Cities, r \in Payloads :
          StatsFirst /\ StoreStart("p1", q, s, c, r)
    \/ StatsFirst /\ StoreInsert("p1")
    \/ StatsFirst /\ StorePopularCheck("p1")
    \/ StatsFirst /\ StorePopularWrite("p1")
    \/ StatsFirst /\ SweepPersistent
    \/ StatsFirst /\ SweepMemory(FALSE)
    \/ StatsFirst /\ Close
    \/ StatsFirst /\ Shutdown
    \/ StatsSteps

SpecShutdown == Init /\ [][NextShutdown]_vars

\* SpecSpelling: one request slot, the same request typed in several ways,
\* within one tick
NextSpelling ==
    \/ InitializeOk
    \/ \E q \in SpelledQueries, s \in SpelledStates, c \in SpelledCities :
          StatsFirst /\ LookupMemoryHit("p1", q, s, c)
    \/ \E q \in SpelledQueries, s \in SpelledStates, c \in SpelledCities :
          StatsFirst /\ LookupMemoryMiss("p1", q, s, c)
    \/ StatsFirst /\ LookupQueryDatabase("p1")
    \/ StatsFirst /\ LookupFindSynonym("p1")
    \/ StatsFirst /\ LookupUpdateHitCount("p1")
    \/ \E q \in SpelledQueries, s \in SpelledStates, c \in SpelledCities,
          r \in Payloads :
          StatsFirst /\ StoreStart("p1", q, s, c, r)
    \/ StatsFirst /\ StoreInsert("p1")
    \/ StatsFirst /\ StorePopularCheck("p1")
    \/ StatsFirst /\ StorePopularWrite("p1")
    \/ StatsSteps

SpecSpelling == Init /\ [][NextSpelling]_vars

\* SpecPopular: stores of three queries follow one another over the ticks of
\* the clock, and getPopularQueries is called in between
NextPopular ==
    \/ InitializeOk
    \/ \E q \in PopularInputs, s \in {GoaState}, c \in Cities, r \in {R1} :
          StatsFirst /\ StoreStart("p1", q, s, c, r)
    \/ StatsFirst /\ StoreInsert("p1")
    \/ StatsFirst /\ StorePopularCheck("p1")
    \/ StatsFirst /\ StorePopularWrite("p1")
    \/ StatsFirst /\ procs["p1"] = Idle /\ Tick
    \/ \E limit \in 0..MaxLimit :
          StatsFirst /\ procs["p1"] = Idle /\ GetPopularQueries(limit)

SpecPopular == Init /\ [][NextPopular]_vars

\* SpecSearch: POST /search requests in the two slots, within one tick
NextSearch ==
    \/ InitializeOk
    \/ \E p \in Procs, body \in Bodies : StatsFirst /\ Settled /\ Search(p, body)
    \/ \E p \in Procs, q \in Queries, s \in States, c \in Cities :
          /\ StatsFirst /\ requests[p].pc = "getCachedResult"
          /\ requests[p].body = [query |-> q, state |-> s, city |-> c]
          /\ LookupMemoryHit(p, q, s, c)
    \/ \E p \in Procs, q \in Queries, s \in States, c \in Cities :
          /\ StatsFirst /\ requests[p].pc = "getCachedResult"
          /\ requests[p].body = [query |-> q, state |-> s, city |-> c]
          /\ LookupMemoryMiss(p, q, s, c)
    \/ \E p \in Procs : StatsFirst /\ Settled /\ LookupQueryDatabase(p)
    \/ \E p \in Procs : StatsFirst /\ Settled /\ LookupFindSynonym(p)
    \/ \E p \in Procs : StatsFirst /\ Settled /\ LookupUpdateHitCount(p)
    \/ \E p \in Procs, r \in Payloads :
          StatsFirst /\ Settled /\ FetchAnswers(p, r, "api")
    \/ \E p \in Procs : StatsFirst /\ Settled /\ FetchAnswers(p, fallbackResult, "fallback")
    \/ \E p \in Procs : StatsFirst /\ Settled /\ FetchFails(p)
    \/ \E p \in Procs, q \in Queries, s \in States, c \in Cities :
          /\ StatsFirst /\ requests[p].pc = "storeResult"
          /\ requests[p].body = [query |-> q, state |-> s, city |-> c]
          /\ StoreStart(p, q, s, c, requests[p].results)
    \/ \E p \in Procs : StatsFirst /\ Settled /\ StoreInsert(p)
    \/ \E p \in Procs : StatsFirst /\ Settled /\ StorePopularCheck(p)
    \/ \E p \in Procs : StatsFirst /\ Settled /\ StorePopularWrite(p)
    \/ StatsSteps

SpecSearch == Init /\ [][NextSearch]_vars

\* SpecMemory: stores, lookups, the Map's sweep and clearAllCache follow one
\* another while the clock advances
NextMemory ==
    \/ InitializeOk
    \/ \E q \in Queries, s \in States, c \in Cities :
          (q = QDlRenewal \/ s = GoaState) /\
          StatsFirst /\ LookupMemoryHit("p1", q, s, c)
    \/ \E q \in Queries, s \in {GoaState}, c \in Cities :
          StatsFirst /\ LookupMemoryMiss("p1", q, s, c)
    \/ StatsFirst /\ LookupQueryDatabase("p1")
    \/ StatsFirst /\ LookupFindSynonym("p1")
    \/ StatsFirst /\ LookupQuerySynonym("p1")
    \/ StatsFirst /\ LookupUpdateHitCount("p1")
    \/ \E q \in Queries, s \in States, c \in Cities :
          (q = QDlRenewal \/ s = GoaState) /\
          StatsFirst /\ StoreStart("p1", q, s, c, R1)
    \/ StatsFirst /\ StoreInsert("p1")
    \/ StatsFirst /\ StorePopularCheck("p1")
    \/ StatsFirst /\ StorePopularWrite("p1")
    \/ StatsFirst /\ procs["p1"] = Idle /\ ClearAllCache
    \/ StatsFirst /\ procs["p1"] = Idle /\ Tick
    \/ StatsFirst /\ SweepMemory(FALSE)
    \/ StatsSteps

SpecMemory == Init /\ [][NextMemory]_vars

\* SpecStores: stores of one query from several states overlap in the two
\* request slots
NextStores ==
    \/ InitializeOk
    \/ \E p \in Procs, s \in States \cup SpelledStates, c \in Cities, r \in Payloads :
          StatsFirst /\ StoreStart(p, QDlRenewal, s, c, r)
    \/ \E p \in Procs : StatsFirst /\ StoreInsert(p)
    \/ \E p \in Procs : StatsFirst /\ StorePopularCheck(p)
    \/ \E p \in Procs : StatsFirst /\ StorePopularWrite(p)

SpecStores == Init /\ [][NextStores]_vars

\* SpecResolve: lookups of "driving license renewal" follow one another while
\* query_synonyms is edited from outside and the persistent tier may start
\* failing
NextResolve ==
    \/ InitializeOk
    \/ \E c \in Cities :
          StatsFirst /\ LookupMemoryHit("p1", QDrivingLicenseRenewal, GoaState, c)
    \/ \E c \in Cities :
          StatsFirst /\ LookupMemoryMiss("p1", QDrivingLicenseRenewal, GoaState, c)
    \/ StatsFirst /\ LookupQueryDatabase("p1")
    \/ StatsFirst /\ LookupFindSynonym("p1")
    \/ StatsFirst /\ LookupQuerySynonym("p1")
    \/ StatsFirst /\ LookupUpdateHitCount("p1")
    \/ StatsFirst /\ EditSynonyms
    \/ StatsFirst /\ IoBreak
    \/ StatsSteps

SpecResolve == Init /\ [][NextResolve]_vars

\* SpecSweep: lookups and stores follow one another while the clock advances,
\* the two intervals fire and the admin surface clears the cache
NextSweep ==
    \/ InitializeOk
    \/ \E q \in Queries, c \in Cities :
          StatsFirst /\ LookupMemoryHit("p1", q, GoaState, c)
    \/ \E q \in Queries, c \in Cities :
          StatsFirst /\ LookupMemoryMiss("p1", q, GoaState, c)
    \/ StatsFirst /\ LookupQueryDatabase("p1")
    \/ StatsFirst /\ LookupFindSynonym("p1")
    \/ StatsFirst /\ LookupQuerySynonym("p1")
    \/ StatsFirst /\ LookupUpdateHitCount("p1")
    \/ \E c \in Cities :
          StatsFirst /\ StoreStart("p1", QDlRenewal, GoaState, c, R1)
    \/ StatsFirst /\ StoreInsert("p1")
    \/ StatsFirst /\ StorePopularCheck("p1")
    \/ StatsFirst /\ StorePopularWrite("p1")
    \/ StatsFirst /\ procs["p1"] = Idle /\ ClearAllCache
    \/ StatsFirst /\ procs["p1"] = Idle /\ ClearExpiredEntries
    \/ StatsFirst /\ procs["p1"] = Idle /\ Tick
    \/ StatsFirst /\ SweepPersistent
    \/ StatsFirst /\ SweepMemory(TRUE)
    \/ StatsSteps

SpecSweep == Init /\ [][NextSweep]_vars

\* SpecLive: lookups and stores in the two slots on a persistent tier that may
\* start failing and whose payloads may be damaged; every statement issued
\* gets its callback in the end
CallbacksLive ==
    \/ \E p \in Procs : StatsFirst /\ LookupQueryDatabase(p)
    \/ \E p \in Procs : StatsFirst /\ LookupFindSynonym(p)
    \/ \E p \in Procs : StatsFirst /\ LookupQuerySynonym(p)
    \/ \E p \in Procs : StatsFirst /\ LookupUpdateHitCount(p)
    \/ \E p \in Procs : StatsFirst /\ StoreInsert(p)
    \/ \E p \in Procs : StatsFirst /\ StorePopularCheck(p)
    \/ \E p \in Procs : StatsFirst /\ StorePopularWrite(p)
    \/ StatsSteps

NextLive ==
    \/ InitializeOk
    \/ \E p \in Procs, c \in Cities :
          StatsFirst /\ LookupMemoryHit(p, QDrivingLicenseRenewal, GoaState, c)
    \/ \E p \in Procs, c \in Cities :
          StatsFirst /\ LookupMemoryMiss(p, QDrivingLicenseRenewal, GoaState, c)
    \/ \E p \in Procs, c \in Cities :
          StatsFirst /\ StoreStart(p, QDrivingLicenseRenewal, GoaState, c, R1)
    \/ StatsFirst /\ IoBreak
    \/ StatsFirst /\ CorruptPayload
    \/ \E p \in Procs : StatsFirst /\ LookupQueryDatabase(p)
    \/ \E p \in Procs : StatsFirst /\ LookupFindSynonym(p)
    \/ \E p \in Procs : StatsFirst /\ LookupQuerySynonym(p)
    \/ \E p \in Procs : StatsFirst /\ LookupUpdateHitCount(p)
    \/ \E p \in Procs : StatsFirst /\ StoreInsert(p)
    \/ \E p \in Procs : StatsFirst /\ StorePopularCheck(p)
    \/ \E p \in Procs : StatsFirst /\ StorePopularWrite(p)
    \/ StatsSteps

SpecLive == Init /\ [][NextLive]_vars /\ WF_vars(CallbacksLive)

\* SpecNormalize: normalizeQuery applied to every input text
NextNormalize == \E x \in Texts(MaxLen) : NormalizeCall(x)

SpecNormalize == Init /\ [][NextNormalize]_vars

(***************************************************************************)
(* Store and lookup                                                        *)
(***************************************************************************)
\* the last lookup returned while bound: a store on its fingerprint had
\* completed before it was issued, no store or clear on the fingerprint began
\* between that completion and the return, and the entry has not expired
boundLookup ==
    /\ ret.op = "lookup"
    /\ ret.expect.bound
    /\ ret.returnedAt < ret.expect.expires_at

\* C1: once storeResult(q, s, c, R) has completed, getCachedResult(q, s, c)
\* returns R, as long as the entry has not expired and no later store or clear
\* touched the fingerprint.  (Here the completed store ran with no other store
\* on the fingerprint in flight.)
C1_StoredIsReturned ==
    boundLookup /\ ret.expect.serial => ret.result = ret.expect.results

\* C3: once a store of R2 has completed after an earlier store on the same
\* fingerprint, every later lookup on the fingerprint returns R2, however the
\* steps of the stores and of concurrent lookups were interleaved.  (Here the
\* later lookup is issued when every overlapping operation has finished.)
C3_LastWriteWins ==
    boundLookup /\ ret.expect.earlier /\ ret.quiet
        => ret.result = ret.expect.results

\* C2: no lookup returns an expired entry: whatever a lookup returns had an
\* expires_at later than the time the lookup was issued at.
C2_NoExpiredServed ==
    ret.op = "lookup" /\ ret.result # Null => ret.issuedAt < ret.servedExpires

\* C4: after clearAllCache() has resolved true, a lookup on a fingerprint that
\* had been stored before the clear returns null, also when the memory tier
\* held the fingerprint at the time of the clear.  (hist.cleared: the
\* fingerprints stored before the last successful clear, while no store has
\* begun since.)
C4_ClearedIsAbsent ==
    ret.op = "lookup" /\ ret.cleared => ret.result = Null

\* C5: with the mapping "dl" -> "driving license" active, a live entry for
\* "driving license renewal" in a state and city and none for "dl renewal",
\* the lookup of "dl renewal" in that state and city returns the stored result
\* through the synonym.
C5_SynonymHit ==
    ret.op = "lookup" /\ ret.synCase =>
        /\ ret.result # Null
        /\ ret.tier = "synonym"

(***************************************************************************)
(* Statistics                                                              *)
(***************************************************************************)
\* the row of cache_stats for day d counts n lookups, h of them hits
dayCounted(d, n, h) ==
    \E r \in cache_stats :
        /\ r.date = d
        /\ r.total_requests = n
        /\ r.cache_hits = h
        /\ r.cache_misses = n - h
        /\ r.api_calls_saved = h

\* C6: the daily counters are exact: when every updateCacheStats call has run
\* to its end, the row of each day on which n lookups completed, h of them with
\* a result, has total_requests = n, cache_hits = h, cache_misses = n - h and
\* api_calls_saved = h, also when the lookups overlapped and when the day's row
\* did not exist yet.
C6_DailyCountersExact ==
    statsTasks = EmptyBag /\ io = "ok" /\ ~hist.errorSeen =>
        \A d \in Days :
            hist.lookups[d].n > 0 => dayCounted(d, hist.lookups[d].n, hist.lookups[d].h)

(***************************************************************************)
(* The memory tier                                                         *)
(***************************************************************************)
\* the key a Map iterates first: the one inserted earliest among those it holds
\* (Map.prototype.set leaves a present key at its place)
earliestInserted(m) == m[1].key

\* the last addToMemoryCache put a key the Map did not hold, into a Map that
\* held memoryCacheSize keys
putOnFull ==
    /\ hist.lastPut.put
    /\ Len(hist.lastPut.before) = memoryCacheSize
    /\ Cardinality(memKeys(hist.lastPut.before)) = memoryCacheSize
    /\ ~memHas(hist.lastPut.before, hist.lastPut.key)

C8_NoExceptionPropagates ==
    ret.op \in {"stats", "clearExpired", "clearAll"} => ~ret.threw

\* C9: when initialize() has failed the process keeps running without a cache:
\* lookups return null, stores store nothing, the memory tier stays empty.
C9_DegradedNoCacheMode ==
    hist.initFailed =>
        /\ process = "running"
        /\ memoryCache = <<>>
        /\ ret.op = "lookup" => ret.result = Null
        /\ ret.op = "store" => ~ret.stored

\* C10: the health report is neither "healthy" nor "no_activity" when it is
\* asked for after initialization failed or after a statement of the
\* persistent tier was seen to fail.
C10_HealthReportsDegraded ==
    ret.op = "health" /\ ret.broken =>
        ret.health.status \notin {"healthy", "no_activity"}

(***************************************************************************)
(* Shutdown                                                                *)
(***************************************************************************)
\* C11: once close() has been called neither cleanup interval fires again, and
\* no sweep, lookup or store uses the closed handle.
C11_NothingRunsAfterClose ==
    hist.closed => hist.afterClose = {}

(***************************************************************************)
(* clearExpiredEntries                                                     *)
(***************************************************************************)
\* the last call was a clearExpiredEntries() whose DELETE ran
clearedExpired == ret.op = "clearExpired" /\ "before" \in DOMAIN ret

\* C12: clearExpiredEntries() removes only rows whose expires_at is earlier
\* than now: every row with expires_at >= now is left as it was, no row is
\* added or changed, and the count it resolves is the number of rows removed.
C12_ClearExpiredFrame ==
    clearedExpired =>
        /\ ret.after \subseteq ret.before
        /\ \A r \in ret.before : dateGetTime(r.expires_at) >= ret.at => r \in ret.after
        /\ ret.result = Cardinality(ret.before \ ret.after)

\* a call removed an expired row and left a row that had not expired
C12_RemovedSomeKeptSome ==
    /\ clearedExpired
    /\ ret.result >= 1
    /\ \E r \in ret.after : dateGetTime(r.expires_at) >= ret.at

(***************************************************************************)
(* normalizeQuery and generateCacheKey                                     *)
(***************************************************************************)
\* C13: normalizeQuery is idempotent: normalizing a normalized text changes
\* nothing, whatever the input.
C13_NormalizeIdempotent ==
    ret.op = "normalize" => ret.twice = ret.once

\* the last lookup was typed otherwise than the last completed store, and
\* both name the same (normalized query, lower-case state, lower-case city)
otherSpelling ==
    /\ ret.op = "lookup" /\ ret.spelled.done
    /\ ret.returnedAt < ret.spelled.expires_at
    /\ <<ret.query, ret.state, ret.city>> #
          <<ret.spelled.query, ret.spelled.state, ret.spelled.city>>
    /\ normalizeQuery(ret.query) = normalizeQuery(ret.spelled.query)
    /\ toLowerCase(ret.state) = toLowerCase(ret.spelled.state)
    /\ toLowerCase(ret.city) = toLowerCase(ret.spelled.city)

\* C14: the fingerprint depends only on (normalize(q), lower(s), lower(c)):
\* a lookup whose query normalizes to the text of a completed store's query
\* and whose state and city differ from the store's only in letter case uses
\* the store's key and returns what was stored.  (Here the operations run one
\* after the other.)
C14_SpellingsShareKey ==
    otherSpelling =>
        /\ ret.key = ret.spelled.key
        /\ ret.result = ret.spelled.results

C14_ServedUnderOtherSpelling ==
    /\ otherSpelling
    /\ ret.state # ret.spelled.state
    /\ ret.query # ret.spelled.query
    /\ ret.result = ret.spelled.results /\ ret.result # Null

(***************************************************************************)
(* Popular queries and hit counts                                          *)
(***************************************************************************)
listedPopular == ret.op = "popular" /\ "table" \in DOMAIN ret

\* record x outranks record y: it was searched more often or, searched as
\* often, more recently
outranks(x, y) ==
    \/ x.search_count > y.search_count
    \/ /\ x.search_count = y.search_count
       /\ dateGetTime(x.last_searched) > dateGetTime(y.last_searched)

C16_HitCountNeverDecreases ==
    [][\A r \in search_cache : \A r2 \in search_cache' :
          r2.query_hash = r.query_hash =>
              r.hit_count >= 1 /\ r2.hit_count >= r.hit_count]_vars

\* C17: every lookup that returns a result, from whichever tier, adds exactly
\* one to the hit_count of the entry that served it and sets its
\* last_accessed to the time of the lookup.  (A step returns a lookup when a
\* slot in a lookup becomes idle, or when a lookup is started and answered at
\* once.)
C17_EveryHitIsCounted ==
    [][(/\ ret'.op = "lookup" /\ ret'.result # Null
        /\ \/ \E p \in Procs : procs[p].op = "lookup" /\ procs'[p] = Idle
           \/ opsStarted' = opsStarted + 1 /\ procs' = procs)
       => \E r \in search_cache :
             /\ JSONparse(r.search_results) = ret'.result
             /\ search_cache' = (search_cache \ {r}) \cup
                   { [r EXCEPT !.hit_count = @ + 1,
                               !.last_accessed = sqlDatetime(now)] }]_vars

(***************************************************************************)
(* POST /search                                                            *)
(***************************************************************************)
\* C18: of identical search requests issued while an earlier one, issued
\* against a cold cache, is still in flight, only one invokes the external
\* generation call.
C18_OnlyFirstCallsProvider ==
    \A p \in Procs :
        requests[p].pc # "none" =>
            \A o \in requests[p].overlaps :
                requests[o].cold => ~(requests[p].fetched /\ requests[o].fetched)

\* the request names no query, no state or no city
lacksField(body) ==
    \/ ~(Fields \subseteq DOMAIN body)
    \/ \E f \in DOMAIN body : Len(body[f]) = 0

\* C20: a search request that lacks query, state or city is rejected before
\* any cache operation: on its arrival it is answered 400 and neither tier,
\* no cache_stats row and no popular_queries row changes, no lookup or store
\* is started for it, and the provider is not called.
C20_RejectedBeforeCache ==
    [][\A p \in Procs :
          requests'[p] # NoRequest /\ lacksField(requests'[p].body) =>
              /\ requests'[p].pc = "done" /\ requests'[p].status = 400
              /\ ~requests'[p].fetched
              /\ procs'[p] = Idle
              /\ requests[p] = NoRequest =>
                    UNCHANGED << memoryCache, search_cache, cache_stats,
                                 popular_queries, statsTasks, procs, opsStarted,
                                 hist >>]_vars

\* a request lacking a field has been answered while the other slot's request
\* went through the cache
C20_RejectedNextToServed ==
    \E p, o \in Procs :
        /\ requests[p] # NoRequest /\ lacksField(requests[p].body)
        /\ requests[p].status = 400
        /\ requests[o] # NoRequest /\ requests[o].status = 200
        /\ search_cache # {}

\* C19: every store that completes is counted: the step that completes a
\* store creates the popular_queries record of its normalized query with
\* search_count 1 when there is none, and adds one to search_count when there
\* is one (so that k completed stores leave search_count = k), also when
\* stores overlap.
C19_EveryStoreCounted ==
    [][\A p \in Procs :
          procs[p].op = "store" /\ procs[p].pc = "popularWrite" /\ procs'[p] = Idle =>
              LET normalizedQuery == normalizeQuery(procs[p].query)
                  before == { r \in popular_queries :
                                r.normalized_query = normalizedQuery }
                  after == { r \in popular_queries' :
                               r.normalized_query = normalizedQuery }
              IN  /\ Cardinality(after) = 1
                  /\ \A a \in after :
                        /\ before = {} => a.search_count = 1
                        /\ \A b \in before : a.search_count = b.search_count + 1]_vars

(***************************************************************************)
(* The path of a lookup                                                    *)
(***************************************************************************)
SourceOrder == << "memory", "persistent", "synonym", "persistent" >>

\* the sources consulted by the lookups in flight and by the last one returned
consultedSoFar ==
    { procs[p].sources : p \in { o \in Procs : procs[o].op = "lookup" } } \cup
    (IF ret.op = "lookup" THEN { ret.sources } ELSE {})

\* C21: a lookup consults memory tier, persistent tier (direct key), synonym
\* resolver, persistent tier (synonym key) in this order: each source only
\* after the one before it missed (the resolver: resolved), so the resolver
\* is asked at most once and the persistent tier read at most twice.
C21_SourcesInOrder ==
    \A sq \in consultedSoFar :
        /\ Len(sq) <= Len(SourceOrder)
        /\ \A i \in 1..Len(sq) : sq[i].source = SourceOrder[i]
        /\ \A i \in 1..(Len(sq) - 1) : sq[i].found <=> i = 3

C21_SynonymPathWalked ==
    /\ ret.op = "lookup" /\ Len(ret.sources) = 4
    /\ ret.sources[4].found /\ ret.result # Null

\* C22: as long as every statement issued to the persistent tier gets its
\* callback (with a row, with nothing or with err), every lookup and every
\* store that has begun returns.
C22_EveryCallReturns ==
    \A p \in Procs : (procs[p] # Idle) ~> (procs[p] = Idle)

\* a lookup went all the way to the resolver on a failing persistent tier, and
\* returned
C22_ReturnedOnFailingTier ==
    /\ ret.op = "lookup" /\ io = "failing"
    /\ Len(ret.sources) = 3 /\ ret.result = Null

\* C23: when a lookup is answered by the persistent tier (direct or through a
\* synonym) the memory tier holds, under the requested fingerprint, the
\* payload and expires_at of the row; and a lookup that begins while the memory
\* tier holds an unexpired entry under its fingerprint returns that payload at
\* once, from the memory tier, without reading the persistent tier.
C23_PromotedThenServedFromMemory ==
    [][ \A p \in Procs :
          /\ ( /\ procs[p].op = "lookup" /\ procs[p].pc = "updateHitCount"
               /\ procs'[p] = Idle /\ ret'.op = "lookup" /\ ret'.result # Null )
             => /\ memHas(memoryCache', keyOf(procs[p]))
                /\ memGet(memoryCache', keyOf(procs[p])) =
                     [ results |-> JSONparse(procs[p].dbResult.search_results),
                       expires_at |-> dateGetTime(procs[p].dbResult.expires_at) ]
                /\ ret'.result = JSONparse(procs[p].dbResult.search_results)
          /\ \A q \in Queries, s \in States, c \in Cities :
               ( /\ procs[p] = Idle /\ opsStarted' = opsStarted + 1 /\ isInitialized
                 /\ \/ /\ procs'[p] # Idle /\ procs'[p].op = "lookup"
                       /\ procs'[p].query = q /\ procs'[p].state = s
                       /\ procs'[p].city = c
                    \/ /\ procs' = procs /\ ret'.op = "lookup" /\ ret'.query = q
                       /\ ret'.state = s /\ ret'.city = c
                 /\ memHas(memoryCache, cacheKeyOf[q, s, c])
                 /\ memGet(memoryCache, cacheKeyOf[q, s, c]).expires_at > now )
               => /\ procs' = procs /\ ret'.op = "lookup"
                  /\ ret'.tier = "memory" /\ ret'.sources = << [source |-> "memory", found |-> TRUE] >>
                  /\ ret'.result = memGet(memoryCache, cacheKeyOf[q, s, c]).results
                  /\ search_cache' = search_cache
      ]_vars

\* the memory tier answered for a fingerprint nothing was stored under in this
\* run: the entry was put there by a hit of the persistent tier
C23_ServedWhatWasPromoted ==
    /\ ret.op = "lookup" /\ ret.tier = "memory" /\ ret.result # Null
    /\ ret.key \notin hist.stored

\* C24: the memory tier never holds more than memoryCacheSize entries, nor two
\* entries under one fingerprint.
C24_MemoryBounded ==
    /\ Len(memoryCache) <= memoryCacheSize
    /\ Cardinality(memKeys(memoryCache)) = Len(memoryCache)

\* a key was put into a Map that held memoryCacheSize other keys, and the Map
\* is as that put left it
C24_FullAfterOverflow ==
    /\ putOnFull /\ memoryCache = hist.lastPut.after
    /\ Len(memoryCache) = memoryCacheSize /\ now > 0

\* the keys of a Map in the order it iterates them
keyOrder(m) == [i \in DOMAIN m |-> m[i].key]

\* the last addToMemoryCache put a key the Map held
rePut == hist.lastPut.put /\ memHas(hist.lastPut.before, hist.lastPut.key)

\* C25: eviction follows insertion order: putting a key the Map holds leaves
\* the keys in the order they had, and a put removes no key but the
\* earliest-inserted one.
C25_InsertionOrderEviction ==
    hist.lastPut.put =>
        LET before == hist.lastPut.before
            after == hist.lastPut.after
        IN  /\ rePut =>
                 SelectSeq(keyOrder(after), LAMBDA k : memHas(before, k))
                   = SelectSeq(keyOrder(before), LAMBDA k : memHas(after, k))
            /\ \A k \in memKeys(before) \ memKeys(after) :
                 k = earliestInserted(before)

\* C26: putting a key the full Map already holds only replaces the value held
\* under it: the Map keeps the keys it had, memoryCacheSize of them.
C26_RePutOnlyReplaces ==
    rePut /\ Len(hist.lastPut.before) = memoryCacheSize =>
        /\ memKeys(hist.lastPut.after) = memKeys(hist.lastPut.before)
        /\ Len(hist.lastPut.after) = memoryCacheSize

\* C27: in every row of cache_stats, cache_hits + cache_misses =
\* total_requests and api_calls_saved = cache_hits, however the
\* updateCacheStats calls interleave.
C27_StatRowsConsistent ==
    \A r \in cache_stats :
        /\ r.cache_hits + r.cache_misses = r.total_requests
        /\ r.api_calls_saved = r.cache_hits

\* two updateCacheStats calls read the same row and one overwrote the other:
\* the day's row counts hits and misses, and fewer lookups than were made
C27_RowAfterLostUpdate ==
    /\ statsTasks = EmptyBag
    /\ \E r \in cache_stats :
         /\ r.cache_hits >= 1 /\ r.cache_misses >= 1
         /\ hist.lookups[r.date].n > r.total_requests

\* a call of getCachedResult returns in this step: one that was waiting for
\* the persistent tier, or one the memory tier answers at once
lookupReturns ==
    \/ \E p \in Procs : procs[p].op = "lookup" /\ procs'[p] = Idle
    \/ procs' = procs /\ opsStarted' = opsStarted + 1 /\ ret'.op = "lookup"

\* C28: on an initialized cache, the step in which a lookup returns calls
\* updateCacheStats once, with a hit exactly if the lookup returns a result
\* (so an internal error or a damaged payload, which return null, record one
\* miss), and no other step of a lookup or store calls it.
C28_OneOutcomePerLookup ==
    [][ isInitialized =>
          IF lookupReturns
          THEN /\ ret'.op = "lookup"
               /\ statsTasks' = statsTasks (+)
                     SetToBag({ [ wasHit |-> ret'.result # Null,
                                  today |-> isoDate(now), pc |-> "check" ] })
          ELSE BagCardinality(statsTasks') <= BagCardinality(statsTasks)
      ]_vars

\* the persistent tier had a row for the lookup, its payload was no JSON text,
\* and the lookup returned null
C28_DamagedPayloadReturnedNull ==
    /\ ret.op = "lookup" /\ ret.result = Null
    /\ Len(ret.sources) = 2 /\ ret.sources[2].found
    /\ \E t \in BagToSet(statsTasks) : ~t.wasHit

\* a call of storeResult, or of getCachedResult, takes a step
storeSteps ==
    \E p \in Procs :
        \/ procs[p].op = "store" /\ procs'[p] # procs[p]
        \/ procs[p] = Idle /\ procs'[p] # Idle /\ procs'[p].op = "store"

lookupSteps ==
    \/ \E p \in Procs :
          \/ procs[p].op = "lookup" /\ procs'[p] # procs[p]
          \/ procs[p] = Idle /\ procs'[p] # Idle /\ procs'[p].op = "lookup"
    \/ procs' = procs /\ opsStarted' = opsStarted + 1 /\ ret'.op = "lookup"

\* C29: no step of a store changes cache_stats or calls updateCacheStats, and
\* no step of a lookup changes popular_queries.
C29_StoreAndLookupKeepApart ==
    [][ /\ storeSteps => cache_stats' = cache_stats /\ statsTasks' = statsTasks
        /\ lookupSteps => popular_queries' = popular_queries
      ]_vars

\* a store has completed and counted its query while cache_stats held the row
\* of a lookup
C29_StoredNextToCountedLookup ==
    /\ ret.op = "store" /\ ret.stored
    /\ \E r \in cache_stats : r.total_requests >= 1
    /\ \E r \in popular_queries : r.search_count >= 2

\* C30: a store writes the persistent tier, then the memory tier, then
\* popular_queries: the step of the INSERT OR REPLACE leaves popular_queries
\* alone and, when it succeeds, leaves the entry in both tiers; when it fails,
\* the store returns without throwing and the memory tier, search_cache and
\* popular_queries are as they were.
C30_StoreWritesThrough ==
    [][ \A p \in Procs :
          ( /\ procs[p].op = "store" /\ procs[p].pc = "insertCacheEntry"
            /\ (procs'[p] = Idle \/ procs'[p].pc # "insertCacheEntry") )
          => /\ popular_queries' = popular_queries
             /\ IF stmtFails
                THEN /\ procs'[p] = Idle
                     /\ ret' = [op |-> "store", stored |-> FALSE]
                     /\ memoryCache' = memoryCache
                     /\ search_cache' = search_cache
                ELSE /\ procs'[p].op = "store"
                     /\ memHas(memoryCache', keyOf(procs[p]))
                     /\ memGet(memoryCache', keyOf(procs[p])).results = procs[p].results
                     /\ \E r \in search_cache' : r.query_hash = keyOf(procs[p])
      ]_vars

\* a store has returned from a failed INSERT OR REPLACE: the memory tier does
\* not hold the entry
C30_ReturnedFromFailedInsert ==
    /\ ret = [op |-> "store", stored |-> FALSE]
    /\ isInitialized /\ io = "failing"
    /\ memoryCache = <<>>

(***************************************************************************)
(* The popularity record                                                   *)
(***************************************************************************)
\* the states a popular_queries row lists, in the order it lists them
statesOf(r) == JSONparse(r.states_searched)

\* C31: when a store completes, the record of its normalized query lists the
\* store's state, still lists every state it listed before, and lists no
\* state twice, also when stores of the query from different states overlap.
C31_StatesSearchedComplete ==
    [][\A p \in Procs :
          procs[p].op = "store" /\ procs[p].pc = "popularWrite" /\ procs'[p] = Idle =>
              LET normalizedQuery == normalizeQuery(procs[p].query)
                  before == { r \in popular_queries :
                                r.normalized_query = normalizedQuery }
                  after == { r \in popular_queries' :
                               r.normalized_query = normalizedQuery }
              IN  /\ after # {}
                  /\ \A a \in after :
                        /\ procs[p].state \in Range(statesOf(a))
                        /\ \A b \in before : Range(statesOf(b)) \subseteq Range(statesOf(a))
                        /\ Cardinality(Range(statesOf(a))) = Len(statesOf(a))]_vars

\* C32: the step that completes a store leaves avg_results equal to the
\* store's result count when the query had no record, and to exactly
\* (old avg_results + result count) / 2 when it had one: twice the new value is
\* the sum.
C32_AvgResultsExact ==
    [][\A p \in Procs :
          procs[p].op = "store" /\ procs[p].pc = "popularWrite" /\ procs'[p] = Idle =>
              LET normalizedQuery == normalizeQuery(procs[p].query)
                  before == { r \in popular_queries :
                                r.normalized_query = normalizedQuery }
                  after == { r \in popular_queries' :
                               r.normalized_query = normalizedQuery }
                  result_count == procs[p].results.services
              IN  \A a \in after :
                     /\ before = {} => a.avg_results = result_count
                     /\ \A b \in before :
                          2 * a.avg_results = b.avg_results + result_count]_vars

(***************************************************************************)
(* The synonym resolver                                                    *)
(***************************************************************************)
\* the active mappings whose synonym_query is the normalized query of lookup l
activeMappings(l) ==
    { m \in query_synonyms :
        m.synonym_query = normalizeQuery(l.query) /\ m.is_active = 1 }

C34_ExpiredLeaveMemory ==
    [][ /\ hist'.swept # hist.swept =>
             /\ memoryCache' = SelectSeq(memoryCache, LAMBDA e : e.data.expires_at > now)
             /\ \A i \in DOMAIN memoryCache :
                   memoryCache[i].data.expires_at <= now
                      => ~memHas(memoryCache', memoryCache[i].key)
             /\ search_cache' = search_cache
        /\ \A p \in Procs, q \in Queries, s \in States, c \in Cities :
             ( /\ procs[p] = Idle /\ opsStarted' = opsStarted + 1 /\ isInitialized
               /\ \/ /\ procs'[p] # Idle /\ procs'[p].op = "lookup"
                     /\ procs'[p].query = q /\ procs'[p].state = s /\ procs'[p].city = c
                  \/ /\ procs' = procs /\ ret'.op = "lookup" /\ ret'.query = q
                     /\ ret'.state = s /\ ret'.city = c
               /\ memHas(memoryCache, cacheKeyOf[q, s, c])
               /\ memGet(memoryCache, cacheKeyOf[q, s, c]).expires_at <= now )
             => /\ ~memHas(memoryCache', cacheKeyOf[q, s, c])
                /\ procs'[p] # Idle /\ procs'[p].pc = "queryDatabase"
                /\ ret' = ret /\ search_cache' = search_cache
      ]_vars

\* the sweep has run on a Map that held an expired entry and a live one, and
\* the Map is as the sweep left it
C34_SweptSomeKeptSome ==
    /\ hist.swept /\ now = TicksPerDay
    /\ Len(memoryCache) = 1
    /\ memoryCache[1].data.expires_at > now
    /\ hist.lastPut.put /\ Len(hist.lastPut.after) = 2

\* a step of clearAllCache or clearExpiredEntries, of the Map's sweep, or of
\* the hourly sweep when it deletes
cleanupSteps ==
    \/ opsStarted' = opsStarted + 1 /\ ret'.op \in { "clearAll", "clearExpired" }
    \/ hist'.swept # hist.swept
    \/ search_cache' # search_cache /\ procs' = procs /\ opsStarted' = opsStarted

\* C36: clearAllCache, clearExpiredEntries and the two intervals only remove
\* cache entries: they add none, and leave cache_stats, popular_queries and
\* query_synonyms as they were.
C36_CleanupsRemoveEntriesOnly ==
    [][ cleanupSteps =>
          /\ search_cache' \subseteq search_cache
          /\ memKeys(memoryCache') \subseteq memKeys(memoryCache)
          /\ cache_stats' = cache_stats /\ statsTasks' = statsTasks
          /\ popular_queries' = popular_queries
          /\ query_synonyms' = query_synonyms
      ]_vars

\* clearAllCache has emptied search_cache while the other three tables held
\* rows
C36_ClearedNextToRecords ==
    /\ ret.op = "clearAll" /\ ~ret.threw /\ ret.result
    /\ search_cache = {} /\ hist.stored # {}
    /\ cache_stats # {} /\ popular_queries # {} /\ query_synonyms # {}

\* C35: when clearExpiredEntries has run its DELETE without err, search_cache
\* holds no row whose expires_at is earlier than the time of the run, also
\* when the row expired earlier on the same day.
C35_SweepIsComplete ==
    [][ ( /\ opsStarted' = opsStarted + 1 /\ ret'.op = "clearExpired"
          /\ ~ret'.threw /\ ~stmtFails )
        => \A r \in search_cache' : ~(dateGetTime(r.expires_at) < now)
      ]_vars

(***************************************************************************)
(* Entries served through a synonym                                        *)
(***************************************************************************)
\* C37: "driving license renewal" is served from the entry of its base query
\* "dl renewal".  When the Map holds the copy an earlier lookup of it got from
\* the base entry, nothing was stored under its own key, and the tier is
\* sound, the next lookup of it returns what the last completed store of the
\* base query stored, and null when the base entry has been cleared.
C37_SynonymFollowsBase ==
    [][ \A p \in Procs, s \in States, c \in Cities :
          LET own == cacheKeyOf[QDrivingLicenseRenewal, s, c]
              base == cacheKeyOf[QDlRenewal, s, c]
          IN  ( /\ \/ /\ procs[p].op = "lookup" /\ procs'[p] = Idle
                      /\ keyOf(procs[p]) = own
                   \/ /\ procs[p] = Idle /\ procs' = procs
                      /\ opsStarted' = opsStarted + 1 /\ ret'.op = "lookup"
                /\ ret'.op = "lookup" /\ ret'.query = QDrivingLicenseRenewal
                /\ ret'.state = s /\ ret'.city = c
                /\ own \notin hist.stored /\ io = "ok"
                /\ \/ memHas(memoryCache, own)
                   \/ ret'.sources[1].found )
              => /\ \A f \in freshOf(base) : ret'.result = f.results
                 /\ base \in hist.cleared => ret'.result = Null
      ]_vars

\* C38: a lookup that returns null leaves search_cache as it was: the step in
\* which it returns creates and removes no row and changes no hit_count or
\* last_accessed, also when it returns null because the payload is no JSON
\* text.  (No earlier step of a lookup writes search_cache.)
C38_MissLeavesEntriesAlone ==
    [][ \A p \in Procs :
          /\ ( /\ procs[p].op = "lookup" /\ procs'[p] = Idle
               /\ ret'.op = "lookup" /\ ret'.result = Null )
             => search_cache' = search_cache
          /\ ( /\ procs[p].op = "lookup" /\ procs'[p] # Idle
               /\ procs'[p].pc # procs[p].pc )
             => search_cache' = search_cache
      ]_vars

(***************************************************************************)
(* One entry per fingerprint                                               *)
(***************************************************************************)
\* the rows of search_cache under a key
entriesOf(rows, cacheKey) == { r \in rows : r.query_hash = cacheKey }

\* C39: search_cache never holds two rows under one query_hash; the step in
\* which a store's INSERT OR REPLACE succeeds leaves, under the store's key,
\* the one row with the store's payload and with expires_at = the time the
\* store began + defaultCacheExpiration, later than created_at, and leaves the
\* rows of other keys as they were, however stores on the key overlap.
C39_OneEntryPerFingerprint ==
    [][ /\ \A r1, r2 \in search_cache' : r1.query_hash = r2.query_hash => r1 = r2
        /\ \A p \in Procs :
             ( /\ procs[p].op = "store" /\ procs[p].pc = "insertCacheEntry"
               /\ procs'[p] # Idle /\ procs'[p].pc = "popularCheck" )
             => LET cacheKey == generateCacheKey(procs[p].query, procs[p].state,
                                                 procs[p].city)
                IN  /\ Cardinality(entriesOf(search_cache', cacheKey)) = 1
                    /\ \A r \in entriesOf(search_cache', cacheKey) :
                          /\ r.search_results = JSONstringify(procs[p].results)
                          /\ dateGetTime(r.expires_at)
                               = procs[p].expiresAt
                          /\ dateGetTime(r.expires_at) > dateGetTime(r.created_at)
                    /\ search_cache' \ entriesOf(search_cache', cacheKey)
                         = search_cache \ entriesOf(search_cache, cacheKey)
      ]_vars

\* two stores on one fingerprint, written "Goa" and "GOA", overlapped; both
\* have run their INSERT OR REPLACE and one row is left
C39_OverlappingStoresOneRow ==
    /\ procs["p1"].op = "store" /\ procs["p2"].op = "store"
    /\ procs["p1"].pc # "insertCacheEntry" /\ procs["p2"].pc # "insertCacheEntry"
    /\ keyOf(procs["p1"]) = keyOf(procs["p2"])
    /\ procs["p1"].state # procs["p2"].state
    /\ procs["p1"].results # procs["p2"].results
    /\ Cardinality(entriesOf(search_cache, keyOf(procs["p1"]))) = 1

(***************************************************************************)
(* The synonym table across initializations                                *)
(***************************************************************************)
\* C40: initialize() on a database file whose tables an earlier run created
\* and seeded leaves the rows of query_synonyms as they were (no seed row is
\* inserted a second time), and no step of a lookup or of a store changes
\* query_synonyms.
C40_InitializeKeepsSynonyms ==
    [][ /\ ( /\ process = "constructed" /\ process' = "running"
             /\ tables /\ query_synonyms # {} )
           => query_synonyms' = query_synonyms
        /\ (\E p \in Procs : procs'[p] # procs[p])
           => query_synonyms' = query_synonyms
      ]_vars

=============================================================================
